---- MODULE Spec2Model ----
(***************************************************************************)
(* Verification model of the MariaDB cluster review engine:                *)
(*   src/src/utils/metrics.py        derived metrics                       *)
(*   src/src/models/input.py         NodeData accessors                    *)
(*   src/src/analyzers/base.py       thresholds, per-node analysis         *)
(*   src/src/analyzers/galera.py     Galera analyzer                       *)
(*   src/src/analyzers/replication.py  async replication analyzer          *)
(*   src/src/analyzers/log_analyzer.py log classifiers                     *)
(*   src/src/services/review_service.py orchestrator                       *)
(*                                                                         *)
(* Numbers.  Python floats are modelled exactly as fractions n/d (d > 0)   *)
(* of integers; ratio thresholds are integers in thousandths (0.9 is 900), *)
(* so "x >= 0.9" is "1000 * x.n >= 900 * x.d"; thresholds on counts (slow  *)
(* queries per hour, seconds of lag) are whole numbers.                    *)
(*                                                                         *)
(* Raw values.  A value of a status / variable dictionary is a string, as  *)
(* in the request example of models/input.py; it is modelled by a record   *)
(* [t, n, s]: t = "int" an integer literal n, t = "dec" a decimal literal  *)
(* of value n/1000, t = "txt" any other text s.                            *)
(***************************************************************************)
EXTENDS Integers, Sequences, FiniteSets, TLC

VARIABLES
    thresholds_file,  \* config/thresholds.yaml as found by _load_thresholds
    thresholds,       \* BaseAnalyzer.thresholds
    node,             \* the NodeData under analysis
    derived,          \* results of the metric functions applied to node
    kind,             \* class of the analyzer running analyze_node_performance
    pc,               \* position in the check sequence of analyze_node_performance
    analysis,         \* the NodeAnalysis being built
    request,          \* the ClusterReviewRequest handed to the service
    response,         \* the ClusterReviewResponse under construction / returned
    review_pc,        \* position inside ReviewService.review
    detect,           \* locals of ReviewService.detect_topology
    results,          \* results of the other analyzers held by ReviewService.review
    self,             \* findings / recommendations fields of the shared topology analyzers
    thread,           \* locals of each caller running analyze on a shared analyzer
    heap,             \* list objects referenced by dict results (identity -> contents)
    refs,             \* findings / recommendations fields of the dict-returning analyzers
    returned,         \* results handed back to callers so far
    slow,             \* locals of SlowQueryLogAnalyzer.analyze_log_content
    mariadb           \* locals of MariaDBLogAnalyzer.analyze_log_content

thVars == <<thresholds_file, thresholds>>
nodeVars == <<node, derived, kind, pc, analysis>>
reviewVars == <<request, response, review_pc, detect, results>>
callVars == <<self, thread, heap, refs, returned>>
logVars == <<slow, mariadb>>
vars == <<thVars, nodeVars, reviewVars, callVars, logVars>>

notNode == <<reviewVars, callVars, logVars>>
notReview == <<nodeVars, callVars, logVars>>
notCall == <<nodeVars, reviewVars, logVars>>
notLog == <<nodeVars, reviewVars, callVars>>

-----------------------------------------------------------------------------
(* Raw dictionary values and their conversions *)

Num(n) == [t |-> "int", n |-> n, s |-> ""]
Dec(m) == [t |-> "dec", n |-> m, s |-> ""]
Txt(s) == [t |-> "txt", n |-> 0, s |-> s]
Missing == [t |-> "missing", n |-> 0, s |-> ""]

\* a dictionary holding key k unless v is Missing
Entry(k, v) == IF v = Missing THEN <<>> ELSE k :> v

None == [some |-> FALSE, v |-> <<>>]
Some(x) == [some |-> TRUE, v |-> x]
NoneInt == [some |-> FALSE, v |-> 0]

\* Python truthiness of an Optional[dict]: None and {} are both false
Truthy(opt) == opt.some /\ DOMAIN opt.v # {}

\* str.upper() on the texts that occur in requests
Upper(s) ==
    CASE s = "on" -> "ON"
      [] s = "On" -> "ON"
      [] s = "off" -> "OFF"
      [] s = "yes" -> "YES"
      [] s = "Yes" -> "YES"
      [] s = "no" -> "NO"
      [] s = "No" -> "NO"
      [] s = "Connecting" -> "CONNECTING"
      [] s = "true" -> "TRUE"
      [] OTHER -> s

\* str(x) of a raw value: numeric literals print as digits, never as a word
Str(v) == IF v.t = "txt" THEN v.s ELSE "#"

\* dict.get(key, default)
Get(d, key, default) == IF key \in DOMAIN d THEN d[key] ELSE default

\* int(x) succeeds on integer literals only (ValueError otherwise)
IntOk(v) == v.t = "int"

\* float(x) succeeds on integer and decimal literals; value in thousandths
FloatOk(v) == v.t \in {"int", "dec"}
FloatMilli(v) == IF v.t = "int" THEN 1000 * v.n ELSE v.n

\* NodeData.get_status
get_status(n, key, default) == Get(n.global_status, key, default)

\* NodeData.get_status_int: int(global_status.get(key, default)), default on ValueError
get_status_int(n, key, default) ==
    LET v == Get(n.global_status, key, Num(default))
    IN  IF IntOk(v) THEN v.n ELSE default

\* NodeData.get_variable
get_variable(n, key, default) == Get(n.global_variables, key, default)

\* NodeData.get_variable_int
get_variable_int(n, key, default) ==
    LET v == Get(n.global_variables, key, Num(default))
    IN  IF IntOk(v) THEN v.n ELSE default

-----------------------------------------------------------------------------
(* Fractions *)

Frac(a, b) == IF b > 0 THEN [n |-> a, d |-> b] ELSE [n |-> -a, d |-> -b]
Zero == [n |-> 0, d |-> 1]
One == [n |-> 1, d |-> 1]

\* x >= t and x < t for a fraction x and a threshold t in thousandths
GE(x, t) == 1000 * x.n >= t * x.d
LT(x, t) == 1000 * x.n < t * x.d
GT(x, t) == 1000 * x.n > t * x.d

RECURSIVE GCD(_, _)
GCD(a, b) == IF b = 0 THEN a ELSE GCD(b, a % b)

Abs(i) == IF i < 0 THEN -i ELSE i

\* a / b in lowest terms
Reduce(a, b) ==
    LET g == GCD(Abs(a), Abs(b))
    IN  IF g = 0 THEN Frac(a, b) ELSE Frac(a \div g, b \div g)

FracAdd(x, y) == Reduce(x.n * y.d + y.n * x.d, x.d * y.d)

\* x / k for a positive integer k
FracDiv(x, k) == Reduce(x.n, x.d * k)

\* the same for a threshold u given in whole units (per-hour rates, seconds)
GEu(x, u) == x.n >= u * x.d
LTu(x, u) == x.n < u * x.d
GTu(x, u) == x.n > u * x.d

-----------------------------------------------------------------------------
(* utils/metrics.py *)

\* node.uptime_seconds or node.get_status_int("Uptime", 1)
uptime_of(n) ==
    IF n.uptime_seconds.some /\ n.uptime_seconds.v # 0
    THEN n.uptime_seconds.v
    ELSE get_status_int(n, "Uptime", 1)

calculate_queries_per_second(n) ==
    LET questions == get_status_int(n, "Questions", 0)
        uptime == uptime_of(n)
    IN  IF uptime = 0 THEN Zero ELSE Frac(questions, uptime)

calculate_writes_per_second(n) ==
    LET inserts == get_status_int(n, "Com_insert", 0)
        updates == get_status_int(n, "Com_update", 0)
        deletes == get_status_int(n, "Com_delete", 0)
        replaces == get_status_int(n, "Com_replace", 0)
        uptime == uptime_of(n)
    IN  IF uptime = 0 THEN Zero
        ELSE Frac(inserts + updates + deletes + replaces, uptime)

calculate_reads_per_second(n) ==
    LET selects == get_status_int(n, "Com_select", 0)
        uptime == uptime_of(n)
    IN  IF uptime = 0 THEN Zero ELSE Frac(selects, uptime)

calculate_connection_utilization(n) ==
    LET max_used == get_status_int(n, "Max_used_connections", 0)
        max_connections == get_variable_int(n, "max_connections", 1)
    IN  IF max_connections = 0 THEN Zero ELSE Frac(max_used, max_connections)

calculate_buffer_pool_hit_ratio(n) ==
    LET reads == get_status_int(n, "Innodb_buffer_pool_reads", 0)
        read_requests == get_status_int(n, "Innodb_buffer_pool_read_requests", 1)
    IN  IF read_requests = 0 THEN One
        ELSE Frac(read_requests - reads, read_requests)

calculate_buffer_pool_usage(n) ==
    LET pages_data == get_status_int(n, "Innodb_buffer_pool_pages_data", 0)
        pages_total == get_status_int(n, "Innodb_buffer_pool_pages_total", 1)
    IN  IF pages_total = 0 THEN Zero ELSE Frac(pages_data, pages_total)

\* slow_queries / (uptime / 3600)
calculate_slow_queries_per_hour(n) ==
    LET slow_queries == get_status_int(n, "Slow_queries", 0)
        uptime == uptime_of(n)
    IN  IF uptime = 0 THEN Zero ELSE Frac(slow_queries * 3600, uptime)

\* get_wsrep_status: the wsrep_status map first, then global_status
get_wsrep_status(n, key, default) ==
    IF Truthy(n.wsrep_status) /\ key \in DOMAIN n.wsrep_status.v
    THEN n.wsrep_status.v[key]
    ELSE get_status(n, key, default)

\* get_wsrep_status_float, in thousandths
get_wsrep_status_float(n, key, default) ==
    LET v == get_wsrep_status(n, key, Num(default))
    IN  IF FloatOk(v) THEN FloatMilli(v) ELSE default

get_wsrep_status_int(n, key, default) ==
    LET v == get_wsrep_status(n, key, Num(default))
    IN  IF IntOk(v) THEN v.n ELSE default

\* fraction of time paused, as a fraction
calculate_galera_flow_control_paused(n) ==
    Frac(get_wsrep_status_float(n, "wsrep_flow_control_paused", 0), 1000)

calculate_galera_recv_queue_avg(n) ==
    Frac(get_wsrep_status_float(n, "wsrep_local_recv_queue_avg", 0), 1000)

calculate_galera_send_queue_avg(n) ==
    Frac(get_wsrep_status_float(n, "wsrep_local_send_queue_avg", 0), 1000)

calculate_galera_cert_conflicts_per_hour(n) ==
    LET conflicts == get_wsrep_status_int(n, "wsrep_local_cert_failures", 0)
        uptime == uptime_of(n)
    IN  IF uptime = 0 THEN Zero ELSE Frac(conflicts * 3600, uptime)

\* Seconds_Behind_Master as Optional[int]
get_replication_lag(n) ==
    IF ~Truthy(n.slave_status) THEN NoneInt
    ELSE LET lag == Get(n.slave_status.v, "Seconds_Behind_Master", Missing)
         IN  IF lag = Missing \/ lag = Txt("NULL") THEN NoneInt
             ELSE IF IntOk(lag) THEN [some |-> TRUE, v |-> lag.n]
             ELSE NoneInt

\* <<io_running, sql_running>>
is_replication_running(n) ==
    IF ~Truthy(n.slave_status) THEN <<FALSE, FALSE>>
    ELSE <<Upper(Str(Get(n.slave_status.v, "Slave_IO_Running", Txt("No")))) = "YES",
           Upper(Str(Get(n.slave_status.v, "Slave_SQL_Running", Txt("No")))) = "YES">>


-----------------------------------------------------------------------------
(* analyzers/base.py: threshold configuration *)

\* A YAML mapping level is either null or a dictionary.
Keys(ks) == [null |-> FALSE, keys |-> ks]
NullKeys == [null |-> TRUE, keys |-> <<>>]
Section(ms) == [null |-> FALSE, metrics |-> ms]
NullSection == [null |-> TRUE, metrics |-> <<>>]
Doc(ss) == [null |-> FALSE, sections |-> ss]
NullDoc == [null |-> TRUE, sections |-> <<>>]

WC(w, c) == ("warning" :> w) @@ ("critical" :> c)

\* BaseAnalyzer._default_thresholds; ratios in thousandths, slow queries per
\* hour and seconds of lag in whole units
default_thresholds ==
    Doc(("server" :> Section(
            ("connection_utilization" :> Keys(WC(700, 900) @@ ("underutilized" :> 300)))
         @@ ("buffer_pool_hit_ratio" :> Keys(WC(950, 900)))
         @@ ("buffer_pool_usage" :> Keys("underutilized" :> 500))
         @@ ("slow_queries_per_hour" :> Keys(WC(100, 500)))))
     @@ ("galera" :> Section(
            ("flow_control_paused" :> Keys(WC(10, 200)))
         @@ ("local_recv_queue_avg" :> Keys(WC(500, 1000)))
         @@ ("local_send_queue_avg" :> Keys(WC(500, 1000)))))
     @@ ("replication" :> Section(
            ("seconds_behind_master" :> Keys(WC(30, 300)))))
     @@ ("resources" :> Section(
            ("cpu" :> Keys(WC(800, 950) @@ ("underutilized" :> 300)))
         @@ ("memory" :> Keys(WC(900, 950) @@ ("underutilized" :> 500)))
         @@ ("disk" :> Keys(WC(800, 900))))))

Without(f, k) == [x \in DOMAIN f \ {k} |-> f[x]]

\* a threshold document that sets its own cutoffs
TunedDoc ==
    Doc(("server" :> Section(
            ("connection_utilization" :> Keys(WC(600, 800) @@ ("underutilized" :> 200)))
         @@ ("buffer_pool_hit_ratio" :> Keys(WC(990, 950)))
         @@ ("buffer_pool_usage" :> Keys("underutilized" :> 400))
         @@ ("slow_queries_per_hour" :> Keys(WC(50, 250)))))
     @@ ("galera" :> Section(
            ("flow_control_paused" :> Keys(WC(5, 100)))))
     @@ ("replication" :> Section(
            ("seconds_behind_master" :> Keys(WC(10, 60))))))

\* the states config/thresholds.yaml can be in: missing, empty, lacking
\* sections, metrics or keys, holding a null section, or complete
AbsentFile == [present |-> FALSE, doc |-> NullDoc]
EmptyFile == [present |-> TRUE, doc |-> NullDoc]
File(doc) == [present |-> TRUE, doc |-> doc]
LacksSection == Doc(Without(default_thresholds.sections, "server"))
LacksMetric ==
    Doc(("server" :> Section(Without(default_thresholds.sections["server"].metrics,
                                     "connection_utilization")))
        @@ Without(default_thresholds.sections, "server"))
LacksKey ==
    Doc(("server" :> Section(
            ("connection_utilization" :> Keys("warning" :> 600))
         @@ ("buffer_pool_hit_ratio" :> Keys("critical" :> 800))))
        @@ Without(default_thresholds.sections, "server"))
HasNullSection == Doc(("server" :> NullSection) @@ Without(default_thresholds.sections, "server"))

ThresholdFiles ==
    {AbsentFile, EmptyFile, File(Doc(<<>>)), File(LacksSection), File(LacksMetric),
     File(LacksKey), File(HasNullSection), File(TunedDoc)}

\* BaseAnalyzer._load_thresholds: yaml.safe_load of the file, the defaults
\* when opening or parsing it fails
load_thresholds(file) == IF file.present THEN file.doc ELSE default_thresholds

\* self.thresholds.get(section, {}).get(metric, {}) followed by the .get
\* calls on the result: AttributeError when any level is None
metric_thresholds(th, section, metric) ==
    IF th.null THEN [raised |-> TRUE, keys |-> <<>>]
    ELSE LET sec == Get(th.sections, section, Section(<<>>))
         IN  IF sec.null THEN [raised |-> TRUE, keys |-> <<>>]
             ELSE LET m == Get(sec.metrics, metric, Keys(<<>>))
                  IN  IF m.null THEN [raised |-> TRUE, keys |-> <<>>]
                      ELSE [raised |-> FALSE, keys |-> m.keys]


-----------------------------------------------------------------------------
(* models: NodeData, Finding, MetricAnalysis, NodeAnalysis *)

NodeData(hostname, role, global_status, global_variables, slave_status, master_status, wsrep_status, uptime_seconds) ==
    [hostname |-> hostname, role |-> role,
     global_status |-> global_status, global_variables |-> global_variables,
     slave_status |-> slave_status, master_status |-> master_status,
     wsrep_status |-> wsrep_status, uptime_seconds |-> uptime_seconds,
     system_resources |-> None]

\* models/input.py SystemResources; the optional fields are Optional values
SystemResources(cpu_cores, ram_gb, disk_total_gb, disk_used_gb, cpu_utilization_pct, ram_utilization_pct) ==
    [cpu_cores |-> cpu_cores, ram_gb |-> ram_gb, disk_total_gb |-> disk_total_gb,
     disk_used_gb |-> disk_used_gb, cpu_utilization_pct |-> cpu_utilization_pct,
     ram_utilization_pct |-> ram_utilization_pct]

WithResources(n, res) == [n EXCEPT !.system_resources = [some |-> TRUE, v |-> res]]
WithHost(n, h) == [n EXCEPT !.hostname = h]

Finding(severity, category, title, host) ==
    [severity |-> severity, category |-> category, title |-> title, node |-> host]

MetricAnalysis(name, status, value) ==
    [name |-> name, status |-> status, value |-> value]

NoneBool == [some |-> FALSE, v |-> FALSE]
SomeBool(b) == [some |-> TRUE, v |-> b]
SomeInt(i) == [some |-> TRUE, v |-> i]

\* the locals of analyze_node_performance at its first line
NewAnalysis(n) ==
    [raised |-> FALSE, hostname |-> n.hostname, role |-> n.role,
     status |-> "info", metrics |-> <<>>, findings |-> <<>>,
     wsrep_ready |-> NoneBool, wsrep_cluster_status |-> Missing,
     wsrep_flow_control_paused |-> Zero,
     slave_io_running |-> NoneBool, slave_sql_running |-> NoneBool,
     seconds_behind_master |-> NoneInt]

NoAnalysis ==
    [raised |-> FALSE, hostname |-> 0, role |-> "", status |-> "info",
     metrics |-> <<>>, findings |-> <<>>,
     wsrep_ready |-> NoneBool, wsrep_cluster_status |-> Missing,
     wsrep_flow_control_paused |-> Zero,
     slave_io_running |-> NoneBool, slave_sql_running |-> NoneBool,
     seconds_behind_master |-> NoneInt]

Severities == {"info", "warning", "critical"}
Rank(sev) == CASE sev = "info" -> 0 [] sev = "warning" -> 1 [] sev = "critical" -> 2

\* "if status != CRITICAL: status = WARNING"
RaiseToWarning(status) == IF status # "critical" THEN "warning" ELSE status

-----------------------------------------------------------------------------
(* BaseAnalyzer.analyze_node_performance, one operator per check *)

check_queries_per_second(a, n) ==
    IF a.raised THEN a
    ELSE [a EXCEPT !.metrics = Append(@, MetricAnalysis("queries_per_second", "info",
                                                       calculate_queries_per_second(n)))]

check_connection_utilization(th, a, n) ==
    LET conn_util == calculate_connection_utilization(n)
        ct == metric_thresholds(th, "server", "connection_utilization")
    IN  IF a.raised THEN a
        ELSE IF ct.raised THEN [a EXCEPT !.raised = TRUE]
        ELSE IF GE(conn_util, Get(ct.keys, "critical", 900))
        THEN [a EXCEPT !.status = "critical",
                       !.findings = Append(@, Finding("critical", "capacity",
                                        "Connection utilization critical", n.hostname)),
                       !.metrics = Append(@, MetricAnalysis("connection_utilization",
                                                            "critical", conn_util))]
        ELSE IF GE(conn_util, Get(ct.keys, "warning", 700))
        THEN [a EXCEPT !.status = RaiseToWarning(@),
                       !.metrics = Append(@, MetricAnalysis("connection_utilization",
                                                            "warning", conn_util))]
        ELSE [a EXCEPT !.metrics = Append(@, MetricAnalysis("connection_utilization",
                                                            "info", conn_util))]

hit_ratio_unguarded_warning(th, a, n) ==
    LET hit_ratio == calculate_buffer_pool_hit_ratio(n)
        bt == metric_thresholds(th, "server", "buffer_pool_hit_ratio")
    IN  IF a.raised THEN a
        ELSE IF bt.raised THEN [a EXCEPT !.raised = TRUE]
        ELSE IF LT(hit_ratio, Get(bt.keys, "critical", 900))
        THEN [a EXCEPT !.status = "critical",
                       !.findings = Append(@, Finding("critical", "performance",
                                        "Buffer pool hit ratio critical", n.hostname)),
                       !.metrics = Append(@, MetricAnalysis("buffer_pool_hit_ratio",
                                                            "critical", hit_ratio))]
        ELSE IF LT(hit_ratio, Get(bt.keys, "warning", 950))
        THEN [a EXCEPT !.status = "warning",
                       !.metrics = Append(@, MetricAnalysis("buffer_pool_hit_ratio",
                                                            "warning", hit_ratio))]
        ELSE [a EXCEPT !.metrics = Append(@, MetricAnalysis("buffer_pool_hit_ratio",
                                                            "info", hit_ratio))]

hit_ratio_at_or_below(hit_ratio, t) == ~GT(hit_ratio, t)

\* "hit_ratio < bp_thresholds.get(...)"
hit_ratio_below(hit_ratio, t) == LT(hit_ratio, t)

check_buffer_pool_hit_ratio(th, a, n) ==
    LET hit_ratio == calculate_buffer_pool_hit_ratio(n)
        bt == metric_thresholds(th, "server", "buffer_pool_hit_ratio")
    IN  IF a.raised THEN a
        ELSE IF bt.raised THEN [a EXCEPT !.raised = TRUE]
        ELSE IF hit_ratio_below(hit_ratio, Get(bt.keys, "critical", 900))
        THEN [a EXCEPT !.status = "critical",
                       !.findings = Append(@, Finding("critical", "performance",
                                        "Buffer pool hit ratio critical", n.hostname)),
                       !.metrics = Append(@, MetricAnalysis("buffer_pool_hit_ratio",
                                                            "critical", hit_ratio))]
        ELSE IF hit_ratio_below(hit_ratio, Get(bt.keys, "warning", 950))
        THEN [a EXCEPT !.status = RaiseToWarning(@),
                       !.metrics = Append(@, MetricAnalysis("buffer_pool_hit_ratio",
                                                            "warning", hit_ratio))]
        ELSE [a EXCEPT !.metrics = Append(@, MetricAnalysis("buffer_pool_hit_ratio",
                                                            "info", hit_ratio))]

check_buffer_pool_usage(a, n) ==
    IF a.raised THEN a
    ELSE [a EXCEPT !.metrics = Append(@, MetricAnalysis("buffer_pool_usage", "info",
                                                       calculate_buffer_pool_usage(n)))]

\* the slow-query check labels its metric and adds a Finding; it does not
\* touch overall_status
check_slow_queries(th, a, n) ==
    LET slow_per_hour == calculate_slow_queries_per_hour(n)
        st == metric_thresholds(th, "server", "slow_queries_per_hour")
    IN  IF a.raised THEN a
        ELSE IF st.raised THEN [a EXCEPT !.raised = TRUE]
        ELSE IF GEu(slow_per_hour, Get(st.keys, "critical", 500))
        THEN [a EXCEPT !.findings = Append(@, Finding("critical", "performance",
                                        "High slow query rate", n.hostname)),
                       !.metrics = Append(@, MetricAnalysis("slow_queries_per_hour",
                                                            "critical", slow_per_hour))]
        ELSE IF GEu(slow_per_hour, Get(st.keys, "warning", 100))
        THEN [a EXCEPT !.metrics = Append(@, MetricAnalysis("slow_queries_per_hour",
                                                            "warning", slow_per_hour))]
        ELSE [a EXCEPT !.metrics = Append(@, MetricAnalysis("slow_queries_per_hour",
                                                            "info", slow_per_hour))]

\* BaseAnalyzer.analyze_node_performance
base_analyze_node_performance(th, n) ==
    check_slow_queries(th,
      check_buffer_pool_usage(
        check_buffer_pool_hit_ratio(th,
          check_connection_utilization(th,
            check_queries_per_second(NewAnalysis(n), n), n), n), n), n)


-----------------------------------------------------------------------------
(* ReplicationAnalyzer.analyze_node_performance: the checks after super() *)

check_replication(th, a, n) ==
    LET run == is_replication_running(n)
        io_running == run[1]
        sql_running == run[2]
        lag == get_replication_lag(n)
        lt == metric_thresholds(th, "replication", "seconds_behind_master")
        b == [a EXCEPT !.slave_io_running = SomeBool(io_running),
                       !.slave_sql_running = SomeBool(sql_running),
                       !.seconds_behind_master = lag]
    IN  IF a.raised THEN a
        ELSE IF ~(n.role = "replica" /\ Truthy(n.slave_status)) THEN a
        ELSE IF ~io_running \/ ~sql_running
        THEN [b EXCEPT !.status = "critical",
                       !.findings = Append(@, Finding("critical", "replication",
                                                      "Replication stopped", n.hostname))]
        ELSE IF ~lag.some THEN b
        ELSE IF lt.raised THEN [b EXCEPT !.raised = TRUE]
        ELSE IF lag.v >= Get(lt.keys, "critical", 300)
        THEN [b EXCEPT !.status = "critical",
                       !.findings = Append(@, Finding("critical", "replication",
                                                      "Replication lag critical", n.hostname))]
        ELSE IF lag.v >= Get(lt.keys, "warning", 30)
        THEN [b EXCEPT !.status = RaiseToWarning(@),
                       !.findings = Append(@, Finding("warning", "replication",
                                                      "Replication lag warning", n.hostname))]
        ELSE b

replication_analyze_node_performance(th, n) ==
    check_replication(th, base_analyze_node_performance(th, n), n)

-----------------------------------------------------------------------------
(* GaleraAnalyzer.analyze_node_performance: the checks after super() *)

check_wsrep_ready(a, n) ==
    LET wsrep_ready == get_wsrep_status(n, "wsrep_ready", Txt("OFF"))
        ready == Upper(Str(wsrep_ready)) = "ON"
        b == [a EXCEPT !.wsrep_ready = SomeBool(ready),
                       !.wsrep_cluster_status =
                           get_wsrep_status(n, "wsrep_cluster_status", Txt(""))]
    IN  IF a.raised THEN a
        ELSE IF ~ready
        THEN [b EXCEPT !.status = "critical",
                       !.findings = Append(@, Finding("critical", "replication",
                                                      "Galera node issue", n.hostname))]
        ELSE b

check_wsrep_cluster_status(a, n) ==
    LET wsrep_cluster_status == get_wsrep_status(n, "wsrep_cluster_status", Txt(""))
    IN  IF a.raised THEN a
        ELSE IF wsrep_cluster_status # Txt("Primary")
        THEN [a EXCEPT !.status = "critical",
                       !.findings = Append(@, Finding("critical", "replication",
                                                      "Galera node issue", n.hostname))]
        ELSE a

local_state_ignored(a, n) == a

check_wsrep_local_state(a, n) ==
    LET wsrep_local_state == get_wsrep_status(n, "wsrep_local_state_comment", Txt(""))
    IN  IF a.raised THEN a
        ELSE IF wsrep_local_state \notin {Txt("Synced"), Txt("Donor/Desynced")}
        THEN [a EXCEPT !.status = RaiseToWarning(@),
                       !.findings = Append(@, Finding("warning", "replication",
                                                      "Galera node issue", n.hostname))]
        ELSE a

check_flow_control(th, a, n) ==
    LET flow_control_paused == calculate_galera_flow_control_paused(n)
        ft == metric_thresholds(th, "galera", "flow_control_paused")
        b == [a EXCEPT !.wsrep_flow_control_paused = flow_control_paused]
    IN  IF a.raised THEN a
        ELSE IF ft.raised THEN [b EXCEPT !.raised = TRUE]
        ELSE IF GE(flow_control_paused, Get(ft.keys, "critical", 200))
        THEN [b EXCEPT !.status = "critical",
                       !.findings = Append(@, Finding("critical", "performance",
                                                      "Flow control critical", n.hostname)),
                       !.metrics = Append(@, MetricAnalysis("wsrep_flow_control_paused",
                                                            "critical", flow_control_paused))]
        ELSE IF GE(flow_control_paused, Get(ft.keys, "warning", 10))
        THEN [b EXCEPT !.status = RaiseToWarning(@),
                       !.findings = Append(@, Finding("warning", "performance",
                                                      "Flow control warning", n.hostname)),
                       !.metrics = Append(@, MetricAnalysis("wsrep_flow_control_paused",
                                                            "warning", flow_control_paused))]
        ELSE [b EXCEPT !.metrics = Append(@, MetricAnalysis("wsrep_flow_control_paused",
                                                            "info", flow_control_paused))]

\* receive and send queue: a labelled metric only
QueueStatus(value, keys) ==
    IF GE(value, Get(keys, "critical", 1000)) THEN "critical"
    ELSE IF GE(value, Get(keys, "warning", 500)) THEN "warning"
    ELSE "info"

check_recv_queue(th, a, n) ==
    LET recv_queue_avg == calculate_galera_recv_queue_avg(n)
        rt == metric_thresholds(th, "galera", "local_recv_queue_avg")
    IN  IF a.raised THEN a
        ELSE IF rt.raised THEN [a EXCEPT !.raised = TRUE]
        ELSE [a EXCEPT !.metrics = Append(@, MetricAnalysis("wsrep_local_recv_queue_avg",
                                    QueueStatus(recv_queue_avg, rt.keys), recv_queue_avg))]

check_send_queue(th, a, n) ==
    LET send_queue_avg == calculate_galera_send_queue_avg(n)
        qt == metric_thresholds(th, "galera", "local_send_queue_avg")
    IN  IF a.raised THEN a
        ELSE IF qt.raised THEN [a EXCEPT !.raised = TRUE]
        ELSE [a EXCEPT !.metrics = Append(@, MetricAnalysis("wsrep_local_send_queue_avg",
                                    QueueStatus(send_queue_avg, qt.keys), send_queue_avg))]

check_cert_conflicts(a, n) ==
    LET cert_conflicts == calculate_galera_cert_conflicts_per_hour(n)
    IN  IF a.raised THEN a
        ELSE [a EXCEPT !.metrics = Append(@, MetricAnalysis("cert_conflicts_per_hour",
                                    IF LTu(cert_conflicts, 10) THEN "info" ELSE "warning",
                                    cert_conflicts))]

galera_analyze_node_performance(th, n) ==
    check_cert_conflicts(
      check_send_queue(th,
        check_recv_queue(th,
          check_flow_control(th,
            check_wsrep_local_state(
              check_wsrep_cluster_status(
                check_wsrep_ready(base_analyze_node_performance(th, n), n), n), n), n), n), n), n)


-----------------------------------------------------------------------------
(* BaseAnalyzer.analyze_capacity and analyze_load *)

RECURSIVE SumFrac(_, _)
\* sum of f[i] over a sequence of fractions, starting from acc
SumFrac(fs, acc) == IF fs = <<>> THEN acc ELSE SumFrac(Tail(fs), FracAdd(acc, Head(fs)))

\* the per-node resource checks of analyze_capacity: which flags the node sets
\* and whether reading its thresholds raises
NodeCapacity(th, n) ==
    LET r == n.system_resources.v
        dt == metric_thresholds(th, "resources", "disk")
        ct == metric_thresholds(th, "resources", "cpu")
        mt == metric_thresholds(th, "resources", "memory")
        disk_checked == r.disk_used_gb.some /\ r.disk_used_gb.v # 0 /\ r.disk_total_gb # 0
        cpu_checked == r.cpu_utilization_pct.some
        mem_checked == r.ram_utilization_pct.some
        disk_pct == Frac(r.disk_used_gb.v, r.disk_total_gb)
        cpu_pct == Frac(r.cpu_utilization_pct.v, 100)
        mem_pct == Frac(r.ram_utilization_pct.v, 100)
    IN  IF ~n.system_resources.some
        THEN [raised |-> FALSE, undersized |-> FALSE, oversized |-> FALSE]
        ELSE [raised |-> \/ disk_checked /\ dt.raised
                         \/ cpu_checked /\ ct.raised
                         \/ mem_checked /\ mt.raised,
              undersized |->
                 \/ disk_checked /\ ~dt.raised /\ GE(disk_pct, Get(dt.keys, "critical", 900))
                 \/ /\ cpu_checked /\ ~ct.raised
                    /\ ~LT(cpu_pct, Get(ct.keys, "underutilized", 300))
                    /\ GE(cpu_pct, Get(ct.keys, "critical", 950))
                 \/ /\ mem_checked /\ ~mt.raised
                    /\ ~LT(mem_pct, Get(mt.keys, "underutilized", 500))
                    /\ GE(mem_pct, Get(mt.keys, "critical", 950)),
              oversized |->
                 mem_checked /\ ~mt.raised /\ LT(mem_pct, Get(mt.keys, "underutilized", 500))]

analyze_capacity(th, req) ==
    LET nodes == req.nodes
        per == [i \in 1..Len(nodes) |-> NodeCapacity(th, nodes[i])]
        total_conn_util == SumFrac([i \in 1..Len(nodes) |-> calculate_connection_utilization(nodes[i])], Zero)
        total_bp_usage == SumFrac([i \in 1..Len(nodes) |-> calculate_buffer_pool_usage(nodes[i])], Zero)
        avg_conn_util == IF nodes # <<>> THEN FracDiv(total_conn_util, Len(nodes)) ELSE Zero
        avg_bp_usage == IF nodes # <<>> THEN FracDiv(total_bp_usage, Len(nodes)) ELSE Zero
        ct == metric_thresholds(th, "server", "connection_utilization")
        bt == metric_thresholds(th, "server", "buffer_pool_usage")
        raised == (\E i \in 1..Len(nodes) : per[i].raised) \/ ct.raised \/ bt.raised
        is_undersized == \E i \in 1..Len(nodes) : per[i].undersized
        is_oversized ==
            \/ \E i \in 1..Len(nodes) : per[i].oversized
            \/ LT(avg_conn_util, Get(ct.keys, "underutilized", 300))
            \/ LT(avg_bp_usage, Get(bt.keys, "underutilized", 500))
    IN  IF raised
        THEN [raised |-> TRUE, status |-> "info", is_oversized |-> FALSE,
              is_undersized |-> FALSE]
        ELSE [raised |-> FALSE,
              status |-> IF is_undersized THEN "critical"
                         ELSE IF is_oversized THEN "warning" ELSE "info",
              is_oversized |-> is_oversized, is_undersized |-> is_undersized]

\* a loop body in which a low hit ratio also clears the flag
can_handle_unless_any_issue(n, can_handle) ==
    IF \/ GT(calculate_connection_utilization(n), 900)
       \/ LT(calculate_buffer_pool_hit_ratio(n), 900)
    THEN FALSE ELSE can_handle

\* can_handle after one node of the second loop of analyze_load: only the
\* connection check assigns it
can_handle_after(n, can_handle) ==
    IF GT(calculate_connection_utilization(n), 900) THEN FALSE ELSE can_handle

RECURSIVE LoadCanHandle(_, _)
LoadCanHandle(nodes, can_handle) ==
    IF nodes = <<>> THEN can_handle
    ELSE LoadCanHandle(Tail(nodes), can_handle_after(Head(nodes), can_handle))

RECURSIVE LoadStatus(_, _)
\* the second loop of analyze_load: status after visiting the nodes in order
LoadStatus(nodes, status) ==
    IF nodes = <<>> THEN status
    ELSE LET n == Head(nodes)
             s1 == IF GT(calculate_connection_utilization(n), 900) THEN "critical" ELSE status
             s2 == IF LT(calculate_buffer_pool_hit_ratio(n), 900) THEN "warning" ELSE s1
         IN  LoadStatus(Tail(nodes), s2)

analyze_load(req) ==
    LET nodes == req.nodes
        total_writes == SumFrac([i \in 1..Len(nodes) |-> calculate_writes_per_second(nodes[i])], Zero)
        total_reads == SumFrac([i \in 1..Len(nodes) |-> calculate_reads_per_second(nodes[i])], Zero)
    IN  [status |-> LoadStatus(nodes, "info"),
         total_queries_per_second |->
             SumFrac([i \in 1..Len(nodes) |-> calculate_queries_per_second(nodes[i])], Zero),
         total_writes_per_second |-> total_writes,
         total_reads_per_second |-> total_reads,
         \* read_write_ratio: reads / writes, "inf" when only reads, 0 when neither
         read_write_ratio |->
             IF total_writes.n > 0
             THEN [inf |-> FALSE, v |-> Reduce(total_reads.n * total_writes.d,
                                                total_reads.d * total_writes.n)]
             ELSE [inf |-> total_reads.n > 0, v |-> Zero],
         can_handle_current_load |-> LoadCanHandle(nodes, TRUE)]

-----------------------------------------------------------------------------
(* Requests, recommendations and the accumulators of a topology analyzer *)

NoMaxScale == [some |-> FALSE, v |-> <<>>]

ClusterReviewRequest(topology_type, nodes) ==
    [topology_type |-> topology_type, nodes |-> nodes, maxscale |-> NoMaxScale]

maxscale_present(req) == req.maxscale.some /\ req.maxscale.v.enabled

Recommendation(priority, category, title) ==
    [priority |-> priority, category |-> category, title |-> title]

\* Python truthiness of a raw (string) value
RawTruthy(v) == v # Txt("") /\ v # Missing

\* self.findings / self.recommendations of the analyzer instance, and the
\* locals of one analyze call
NewLocals ==
    [raised |-> FALSE, node_analyses |-> <<>>, architecture |-> <<>>,
     capacity |-> <<>>, load |-> <<>>]
NewSelf == [findings |-> <<>>, recommendations |-> <<>>]
Frame(selfst, loc) == [self |-> selfst, loc |-> loc]

\* BaseAnalyzer.add_recommendation
add_recommendation(fr, rec) == [fr EXCEPT !.self.recommendations = Append(@, rec)]

\* "self.findings = []; self.recommendations = []" at the top of analyze
reset_accumulators(fr) == [fr EXCEPT !.self = NewSelf]

\* analyze_node_performance as overridden by the analyzer class
analyze_node_performance(k, th, n) ==
    CASE k = "galera" -> galera_analyze_node_performance(th, n)
      [] k = "replication" -> replication_analyze_node_performance(th, n)
      [] OTHER -> base_analyze_node_performance(th, n)

\* "node_analyses.append(analysis); self.findings.extend(analysis.findings)"
collect_analysis(fr, a) ==
    IF fr.loc.raised THEN fr
    ELSE IF a.raised THEN [fr EXCEPT !.loc.raised = TRUE]
    ELSE [fr EXCEPT !.loc.node_analyses = Append(@, a),
                    !.self.findings = @ \o a.findings]

\* one iteration of "for node in request.nodes" in analyze
analyze_node(k, th, fr, n) == collect_analysis(fr, analyze_node_performance(k, th, n))

RECURSIVE analyze_nodes(_, _, _, _)
analyze_nodes(k, th, fr, nodes) ==
    IF nodes = <<>> THEN fr
    ELSE analyze_nodes(k, th, analyze_node(k, th, fr, Head(nodes)), Tail(nodes))

HasStatus(node_analyses, sev) ==
    \E i \in 1..Len(node_analyses) : node_analyses[i].status = sev

\* "Determine overall status" of the Galera and replication analyzers
overall_status_of(loc) ==
    IF \/ HasStatus(loc.node_analyses, "critical")
       \/ loc.architecture.status = "critical"
       \/ loc.capacity.is_undersized
    THEN "critical"
    ELSE IF \/ HasStatus(loc.node_analyses, "warning")
            \/ loc.architecture.status = "warning"
            \/ loc.capacity.is_oversized
    THEN "warning"
    ELSE "info"

RaisedResponse == [raised |-> TRUE]

\* the ClusterReviewResponse built in the return statement of analyze; the
\* model validation copies the two lists out of the analyzer
respond(topology, fr) ==
    IF fr.loc.raised THEN RaisedResponse
    ELSE [raised |-> FALSE, topology_type |-> topology,
          overall_status |-> overall_status_of(fr.loc),
          architecture |-> fr.loc.architecture, capacity |-> fr.loc.capacity,
          load_analysis |-> fr.loc.load, node_analyses |-> fr.loc.node_analyses,
          findings |-> fr.self.findings, recommendations |-> fr.self.recommendations]

\* architecture, capacity and load analysis, in that order
assess(fr, architecture, capacity, load) ==
    IF fr.loc.raised THEN fr
    ELSE IF capacity.raised THEN [fr EXCEPT !.loc.raised = TRUE]
    ELSE [fr EXCEPT !.loc.architecture = architecture, !.loc.capacity = capacity,
                    !.loc.load = load]

-----------------------------------------------------------------------------
(* GaleraAnalyzer.analyze_architecture and analyze *)

galera_nodes(req) == SelectSeq(req.nodes, LAMBDA n : n.role = "galera_node")

checks_all_nodes(req) == req.nodes

\* nodes_to_check: the galera_node-role nodes, all nodes when there is none
nodes_to_check(req) == IF galera_nodes(req) # <<>> THEN galera_nodes(req) ELSE req.nodes

galera_analyze_architecture(req) ==
    LET node_count ==
            IF galera_nodes(req) # <<>> THEN Len(galera_nodes(req)) ELSE Len(req.nodes)
        checked == nodes_to_check(req)
        idx == 1..Len(checked)
        \* Check cluster size
        valid1 == ~(node_count < 3)
        status1 == IF node_count < 3 THEN "warning" ELSE "info"
        recs1 == (IF node_count < 3 THEN <<"minimum 3 nodes">> ELSE <<>>)
                 \o (IF node_count % 2 = 0 THEN <<"even number of nodes">> ELSE <<>>)
        \* Check cluster state consistency
        cluster_sizes ==
            {z \in {get_wsrep_status_int(checked[i], "wsrep_cluster_size", 0) : i \in idx} :
                z > 0}
        cluster_statuses ==
            {v \in {get_wsrep_status(checked[i], "wsrep_cluster_status", Txt("")) : i \in idx} :
                RawTruthy(v)}
        cluster_uuids ==
            {v \in {get_wsrep_status(checked[i], "wsrep_cluster_state_uuid", Txt("")) : i \in idx} :
                RawTruthy(v)}
        flow_control_issues ==
            \E i \in idx : GT(calculate_galera_flow_control_paused(checked[i]), 10)
        \* Validate consistency
        sizes_differ == Cardinality(cluster_sizes) > 1
        uuids_differ == Cardinality(cluster_uuids) > 1
        no_primary == Txt("Primary") \notin cluster_statuses /\ cluster_statuses # {}
        status2 == IF sizes_differ THEN "critical" ELSE status1
        valid2 == IF sizes_differ THEN FALSE ELSE valid1
        status3 == IF uuids_differ THEN "critical" ELSE status2
        valid3 == IF uuids_differ THEN FALSE ELSE valid2
        status4 == IF no_primary THEN "critical" ELSE status3
    IN  [topology_type |-> "galera",
         topology_valid |-> valid3,
         status |-> status4,
         node_count |-> node_count,
         ha_capable |-> node_count >= 2,
         quorum_capable |-> node_count >= 3,
         replication_healthy |-> NoneBool,
         replication_lag_seconds |-> NoneInt,
         galera_cluster_sizes |-> cluster_sizes,
         galera_flow_control_issues |-> flow_control_issues,
         maxscale_present |-> maxscale_present(req),
         architecture_recommendations |->
             recs1
             \o (IF sizes_differ THEN <<"inconsistent cluster sizes">> ELSE <<>>)
             \o (IF uuids_differ THEN <<"multiple cluster UUIDs">> ELSE <<>>)
             \o (IF no_primary THEN <<"no nodes in Primary component">> ELSE <<>>)
             \o (IF flow_control_issues THEN <<"flow control detected">> ELSE <<>>),
         consider_alternatives |->
             IF node_count > 5 THEN <<"5+ node cluster">> ELSE <<>>]

\* "Add recommendations based on analysis" of GaleraAnalyzer.analyze
galera_add_recommendations(fr) ==
    LET architecture == fr.loc.architecture
        load == fr.loc.load
        rw == load.read_write_ratio
        fr1 == IF architecture.galera_flow_control_issues
               THEN add_recommendation(fr, Recommendation(2, "performance",
                                                          "Address flow control issues"))
               ELSE fr
        fr2 == IF ~architecture.quorum_capable
               THEN add_recommendation(fr1, Recommendation(1, "availability",
                                                           "Add nodes for quorum"))
               ELSE fr1
        fr3 == IF /\ rw.inf \/ GTu(rw.v, 20)
                  /\ LTu(load.total_writes_per_second, 100)
               THEN add_recommendation(fr2, Recommendation(4, "configuration",
                                                           "Consider simpler topology"))
               ELSE fr2
    IN  IF fr.loc.raised THEN fr ELSE fr3

\* the three assessments of analyze and the recommendations it adds after them
galera_recommend(th, fr0, req) ==
    galera_add_recommendations(
        assess(fr0, galera_analyze_architecture(req), analyze_capacity(th, req),
               analyze_load(req)))

\* GaleraAnalyzer.analyze
galera_analyze(th, selfst, req) ==
    respond("galera",
        galera_recommend(th,
            analyze_nodes("galera", th, reset_accumulators(Frame(selfst, NewLocals)),
                          req.nodes),
            req))

-----------------------------------------------------------------------------
(* ReplicationAnalyzer.analyze_architecture and analyze *)

RECURSIVE MaxLag(_, _)
MaxLag(replicas, max_lag) ==
    IF replicas = <<>> THEN max_lag
    ELSE LET lag == get_replication_lag(Head(replicas))
         IN  MaxLag(Tail(replicas),
                    IF Truthy(Head(replicas).slave_status) /\ lag.some /\ lag.v > max_lag
                    THEN lag.v ELSE max_lag)

stopped_replica_ignored(replica) == FALSE

\* a replica with a slave status whose IO or SQL thread is not running
replica_stopped(replica) ==
    /\ Truthy(replica.slave_status)
    /\ ~is_replication_running(replica)[1] \/ ~is_replication_running(replica)[2]

replication_analyze_architecture(req) ==
    LET masters == SelectSeq(req.nodes, LAMBDA n : n.role = "master")
        replicas == SelectSeq(req.nodes, LAMBDA n : n.role = "replica")
        \* Validate topology
        topology_valid == ~(Len(masters) # 1)
        status1 == IF Len(masters) # 1 THEN "critical" ELSE "info"
        status2 == IF Len(replicas) < 1 THEN "warning" ELSE status1
        \* Check replication health across replicas
        replication_healthy == ~\E i \in 1..Len(replicas) : replica_stopped(replicas[i])
        max_lag == MaxLag(replicas, 0)
        status3 == IF ~replication_healthy THEN "critical" ELSE status2
    IN  [topology_type |-> "master_replica",
         topology_valid |-> topology_valid,
         status |-> status3,
         node_count |-> Len(req.nodes),
         ha_capable |-> Len(replicas) >= 1,
         quorum_capable |-> FALSE,
         replication_healthy |-> SomeBool(replication_healthy),
         replication_lag_seconds |-> IF max_lag > 0 THEN SomeInt(max_lag) ELSE NoneInt,
         galera_cluster_sizes |-> {},
         galera_flow_control_issues |-> FALSE,
         maxscale_present |-> maxscale_present(req),
         architecture_recommendations |->
             (IF Len(masters) # 1 THEN <<"expected 1 master">> ELSE <<>>)
             \o (IF Len(replicas) < 1 THEN <<"no replicas found">> ELSE <<>>)
             \o (IF ~replication_healthy THEN <<"replicas have stopped replication">>
                 ELSE <<>>),
         consider_alternatives |->
             (IF max_lag > 30 THEN <<"semi_sync">> ELSE <<>>)
             \o (IF Len(replicas) >= 2 THEN <<"galera">> ELSE <<>>)]

\* "Add recommendations based on findings" of ReplicationAnalyzer.analyze
replication_add_recommendations(fr) ==
    LET architecture == fr.loc.architecture
        lag == architecture.replication_lag_seconds
        fr1 == IF lag.some /\ lag.v # 0 /\ lag.v > 30
               THEN add_recommendation(fr, Recommendation(1, "replication",
                                                          "Address replication lag"))
               ELSE fr
        fr2 == IF ~architecture.replication_healthy.v
               THEN add_recommendation(fr1, Recommendation(1, "replication",
                                                           "Fix stopped replication"))
               ELSE fr1
    IN  IF fr.loc.raised THEN fr ELSE fr2

\* the three assessments of analyze and the recommendations it adds after them
replication_recommend(th, fr0, req) ==
    replication_add_recommendations(
        assess(fr0, replication_analyze_architecture(req), analyze_capacity(th, req),
               analyze_load(req)))

\* ReplicationAnalyzer.analyze
replication_analyze(th, selfst, req) ==
    respond("master_replica",
        replication_recommend(th,
            analyze_nodes("replication", th, reset_accumulators(Frame(selfst, NewLocals)),
                          req.nodes),
            req))

-----------------------------------------------------------------------------
(* StandaloneAnalyzer.analyze_architecture and analyze *)

standalone_analyze_architecture(req) ==
    LET node_count == Len(req.nodes)
        topology_valid == node_count = 1
    IN  [topology_type |-> "standalone",
         topology_valid |-> topology_valid,
         status |-> IF ~topology_valid THEN "warning" ELSE "info",
         node_count |-> node_count,
         ha_capable |-> FALSE,
         quorum_capable |-> FALSE,
         replication_healthy |-> NoneBool,
         replication_lag_seconds |-> NoneInt,
         galera_cluster_sizes |-> {},
         galera_flow_control_issues |-> FALSE,
         maxscale_present |-> maxscale_present(req),
         architecture_recommendations |->
             (IF ~topology_valid THEN <<"expects 1 node">> ELSE <<>>)
             \o <<"no high availability">>,
         consider_alternatives |-> <<"master_replica", "galera">>]

\* BaseAnalyzer.add_finding
add_finding(fr, finding) == [fr EXCEPT !.self.findings = Append(@, finding)]

availability_only_when_invalid(fr, req) ==
    IF fr.loc.raised \/ fr.loc.architecture.topology_valid THEN fr
    ELSE add_recommendation(
             add_finding(fr, Finding("warning", "availability", "No high availability",
                                     req.nodes[1].hostname)),
             Recommendation(2, "availability", "Consider adding high availability"))

\* "Add architecture-related finding" and "Add recommendation for HA"
standalone_add_availability(fr, req) ==
    IF fr.loc.raised THEN fr
    ELSE add_recommendation(
             add_finding(fr, Finding("warning", "availability", "No high availability",
                                     req.nodes[1].hostname)),
             Recommendation(2, "availability", "Consider adding high availability"))

\* the three assessments of analyze and what it adds after them
standalone_recommend(th, fr0, req) ==
    standalone_add_availability(
        assess(fr0, standalone_analyze_architecture(req), analyze_capacity(th, req),
               analyze_load(req)),
        req)

\* "Determine overall status" of the standalone analyzer
standalone_overall_status(loc) ==
    IF loc.capacity.is_undersized \/ HasStatus(loc.node_analyses, "critical")
    THEN "critical"
    ELSE IF loc.capacity.is_oversized \/ HasStatus(loc.node_analyses, "warning")
    THEN "warning"
    ELSE "info"

standalone_respond(fr) ==
    IF fr.loc.raised THEN RaisedResponse
    ELSE [respond("standalone", fr) EXCEPT
              !.overall_status = standalone_overall_status(fr.loc)]

\* StandaloneAnalyzer.analyze
standalone_analyze(th, selfst, req) ==
    standalone_respond(
        standalone_recommend(th,
            analyze_nodes("standalone", th, reset_accumulators(Frame(selfst, NewLocals)),
                          req.nodes),
            req))

-----------------------------------------------------------------------------
(* SemiSyncAnalyzer.analyze_architecture and analyze *)

\* str(x).upper() in ("ON", "1", "TRUE")
semi_sync_on(v) == (v.t = "int" /\ v.n = 1) \/ Upper(Str(v)) \in {"ON", "TRUE"}

master_enabled(master) ==
    semi_sync_on(get_variable(master, "rpl_semi_sync_master_enabled", Txt("OFF")))

master_status_on(master) ==
    Upper(Str(get_status(master, "Rpl_semi_sync_master_status", Txt("OFF")))) = "ON"

\* the recommendations of one iteration of "for master in masters"
master_recommendations(master, replica_count) ==
    IF ~master_enabled(master) THEN <<>>
    ELSE (IF ~master_status_on(master) THEN <<"semi-sync master status is OFF">> ELSE <<>>)
         \o (IF get_variable_int(master, "rpl_semi_sync_master_timeout", 10000) < 1000
             THEN <<"semi-sync timeout is low">> ELSE <<>>)
         \o (IF get_status_int(master, "Rpl_semi_sync_master_clients", 0) < replica_count
             THEN <<"replicas not connected with semi-sync">> ELSE <<>>)

RECURSIVE masters_recommendations(_, _)
masters_recommendations(masters, replica_count) ==
    IF masters = <<>> THEN <<>>
    ELSE master_recommendations(Head(masters), replica_count)
         \o masters_recommendations(Tail(masters), replica_count)

RECURSIVE replicas_recommendations(_)
replicas_recommendations(replicas) ==
    IF replicas = <<>> THEN <<>>
    ELSE (IF ~semi_sync_on(get_variable(Head(replicas), "rpl_semi_sync_slave_enabled",
                                        Txt("OFF")))
          THEN <<"replica does not have semi-sync enabled">> ELSE <<>>)
         \o replicas_recommendations(Tail(replicas))

\* the checks analyze_architecture makes after super().analyze_architecture
semi_sync_checks(base_arch, masters, replicas) ==
    LET semi_sync_enabled == \E i \in 1..Len(masters) : master_enabled(masters[i])
        semi_sync_healthy ==
            \A i \in 1..Len(masters) :
                master_enabled(masters[i]) => master_status_on(masters[i])
    IN  [base_arch EXCEPT
            !.topology_type = "semi_sync",
            !.topology_valid = @ /\ semi_sync_enabled,
            !.status = IF ~semi_sync_enabled THEN "warning" ELSE @,
            !.ha_capable = Len(replicas) >= 1 /\ semi_sync_healthy,
            !.replication_healthy = SomeBool(@.v /\ semi_sync_healthy),
            !.architecture_recommendations =
                @ \o masters_recommendations(masters, Len(replicas))
                  \o (IF ~semi_sync_enabled THEN <<"semi-sync not enabled on master">>
                      ELSE <<>>)
                  \o replicas_recommendations(replicas),
            !.consider_alternatives = IF Len(replicas) >= 2 THEN <<"galera">> ELSE <<>>]

semi_sync_analyze_architecture(req) ==
    semi_sync_checks(replication_analyze_architecture(req),
                     SelectSeq(req.nodes, LAMBDA n : n.role = "master"),
                     SelectSeq(req.nodes, LAMBDA n : n.role = "replica"))

\* "Semi-sync specific recommendations" and "Check if Galera might be more
\* appropriate"
semi_sync_add_recommendations(fr, masters) ==
    LET fr1 == IF ~fr.loc.architecture.topology_valid
               THEN add_recommendation(fr, Recommendation(1, "replication",
                                           "Enable semi-synchronous replication"))
               ELSE fr
    IN  IF fr.loc.raised THEN fr
        ELSE IF masters # <<>> /\ GTu(calculate_writes_per_second(masters[1]), 1000)
        THEN add_recommendation(fr1, Recommendation(3, "availability",
                                     "Consider Galera for high write workloads"))
        ELSE fr1

semi_sync_recommend(th, fr0, req) ==
    semi_sync_add_recommendations(
        assess(fr0, semi_sync_analyze_architecture(req), analyze_capacity(th, req),
               analyze_load(req)),
        SelectSeq(req.nodes, LAMBDA n : n.role = "master"))

\* SemiSyncAnalyzer.analyze; the node analysis is the one of ReplicationAnalyzer
semi_sync_analyze(th, selfst, req) ==
    respond("semi_sync",
        semi_sync_recommend(th,
            analyze_nodes("replication", th, reset_accumulators(Frame(selfst, NewLocals)),
                          req.nodes),
            req))

-----------------------------------------------------------------------------
(* Node inputs *)

\* <<Max_used_connections, max_connections>>
ConnCases ==
    {<<Missing, Missing>>, <<Num(9), Num(10)>>, <<Num(7), Num(10)>>, <<Num(4), Num(10)>>,
     <<Num(5), Num(0)>>}

\* <<Innodb_buffer_pool_reads, Innodb_buffer_pool_read_requests>>
HitCases ==
    {<<Missing, Missing>>, <<Num(7), Num(100)>>, <<Num(20), Num(100)>>, <<Num(0), Num(100)>>,
     <<Num(5), Num(0)>>, <<Num(50), Missing>>}

\* <<Slow_queries, uptime_seconds, Uptime>>
SlowCases ==
    {<<Missing, NoneInt, Missing>>, <<Num(600), SomeInt(3600), Missing>>,
     <<Num(200), SomeInt(0), Num(3600)>>, <<Num(5), SomeInt(0), Num(0)>>,
     <<Num(3), NoneInt, Txt("n/a")>>}

\* <<Questions, Com_select, Com_insert, pages_data, pages_total>>
RateCases ==
    {<<Missing, Missing, Missing, Missing, Missing>>,
     <<Num(500), Num(400), Num(100), Num(60), Num(100)>>,
     <<Num(0), Num(0), Num(0), Num(3), Num(0)>>,
     <<Txt(""), Num(9), Missing, Num(20), Missing>>}

StatusOf(c, h, sl, r) ==
    Entry("Max_used_connections", c[1])
    @@ Entry("Innodb_buffer_pool_reads", h[1])
    @@ Entry("Innodb_buffer_pool_read_requests", h[2])
    @@ Entry("Slow_queries", sl[1]) @@ Entry("Uptime", sl[3])
    @@ Entry("Questions", r[1]) @@ Entry("Com_select", r[2]) @@ Entry("Com_insert", r[3])
    @@ Entry("Innodb_buffer_pool_pages_data", r[4])
    @@ Entry("Innodb_buffer_pool_pages_total", r[5])

VariablesOf(c) == Entry("max_connections", c[2])

PlainRates == <<Missing, Missing, Missing, Missing, Missing>>

MetricNodes ==
    {NodeData(1, "standalone", StatusOf(c, h, sl, r), VariablesOf(c), None, None, None, sl[2]) :
        c \in ConnCases, h \in HitCases, sl \in SlowCases, r \in RateCases}

\* <<role, slave_status>>
Slave(io, sql, lag) ==
    Some(Entry("Slave_IO_Running", io) @@ Entry("Slave_SQL_Running", sql)
         @@ Entry("Seconds_Behind_Master", lag))

SlaveCases ==
    {<<"master", None>>, <<"replica", None>>, <<"replica", Some(<<>>)>>,
     <<"replica", Slave(Txt("Yes"), Txt("Yes"), Num(0))>>,
     <<"replica", Slave(Txt("yes"), Txt("Yes"), Num(40))>>,
     <<"replica", Slave(Txt("Yes"), Txt("Yes"), Num(400))>>,
     <<"replica", Slave(Txt("Yes"), Txt("Yes"), Txt("NULL"))>>,
     <<"replica", Slave(Txt("No"), Txt("Yes"), Num(0))>>,
     <<"replica", Slave(Txt("Yes"), Txt("Connecting"), Num(40))>>,
     <<"replica", Slave(Missing, Txt("Yes"), Missing)>>,
     <<"master", Slave(Txt("No"), Txt("No"), Num(400))>>}

\* <<wsrep_ready, wsrep_cluster_status, wsrep_local_state_comment,
\*   wsrep_flow_control_paused, wsrep_local_recv_queue_avg>>
WsrepOf(w) ==
    Entry("wsrep_ready", w[1]) @@ Entry("wsrep_cluster_status", w[2])
    @@ Entry("wsrep_local_state_comment", w[3])
    @@ Entry("wsrep_flow_control_paused", w[4])
    @@ Entry("wsrep_local_recv_queue_avg", w[5])

WsrepCases ==
    {<<Txt("ON"), Txt("Primary"), Txt("Synced"), Dec(1), Dec(0)>>,
     <<Txt("on"), Txt("Primary"), Txt("Donor/Desynced"), Missing, Dec(700)>>,
     <<Txt("OFF"), Txt("Primary"), Txt("Synced"), Dec(1), Missing>>,
     <<Txt("ON"), Txt("non-Primary"), Txt("Synced"), Dec(1), Num(2)>>,
     <<Txt("ON"), Txt("Primary"), Txt("Joining"), Dec(1), Missing>>,
     <<Txt("ON"), Txt("Primary"), Txt("Synced"), Dec(300), Missing>>,
     <<Txt("ON"), Txt("Primary"), Txt("Synced"), Dec(50), Missing>>,
     <<Txt("ON"), Txt("non-Primary"), Txt("Joining"), Dec(50), Missing>>,
     <<Missing, Missing, Missing, Missing, Missing>>,
     <<Txt("ON"), Txt("Primary"), Missing, Txt("n/a"), Missing>>}

\* a subset of counter cases keeps the per-node state space small
NodeConn == {<<Missing, Missing>>, <<Num(9), Num(10)>>, <<Num(7), Num(10)>>, <<Num(4), Num(10)>>}
NodeHit ==
    {<<Missing, Missing>>, <<Num(7), Num(100)>>, <<Num(20), Num(100)>>, <<Num(5), Num(0)>>,
     <<Num(5), Num(100)>>, <<Num(501), Num(10000)>>, <<Num(10), Num(100)>>,
     <<Num(1001), Num(10000)>>}
NodeSlow == {<<Missing, NoneInt, Missing>>, <<Num(600), SomeInt(3600), Missing>>,
             <<Num(200), SomeInt(0), Num(3600)>>}

\* <<analyzer class, node>>
NodeInputs ==
    {<<"base", NodeData(1, "standalone", StatusOf(c, h, sl, PlainRates), VariablesOf(c),
                        None, None, None, sl[2])>> :
        c \in NodeConn, h \in NodeHit, sl \in NodeSlow}
    \cup
    {<<"replication", NodeData(1, sv[1], StatusOf(c, h, sl, PlainRates), VariablesOf(c),
                               sv[2], None, None, sl[2])>> :
        c \in NodeConn, h \in NodeHit, sl \in NodeSlow, sv \in SlaveCases}
    \cup
    {<<"galera", NodeData(1, "galera_node", StatusOf(c, h, sl, PlainRates) @@ WsrepOf(w),
                          VariablesOf(c), None, None, None, sl[2])>> :
        c \in NodeConn, h \in NodeHit, sl \in NodeSlow, w \in WsrepCases}
    \cup
    {<<"galera", NodeData(1, "galera_node", StatusOf(c, h, sl, PlainRates),
                          VariablesOf(c), None, None, Some(WsrepOf(w)), sl[2])>> :
        c \in {<<Num(4), Num(10)>>}, h \in NodeHit, sl \in NodeSlow, w \in WsrepCases}

NoNode == NodeData(0, "", <<>>, <<>>, None, None, None, NoneInt)

-----------------------------------------------------------------------------
(* Specification SpecMetrics: the metric functions applied to a node *)

MetricNames ==
    {"queries_per_second", "writes_per_second", "reads_per_second",
     "connection_utilization", "buffer_pool_hit_ratio", "buffer_pool_usage",
     "slow_queries_per_hour"}

NotComputed == [done |-> FALSE, v |-> Zero]
Computed(x) == [done |-> TRUE, v |-> x]
NoDerived == [m \in MetricNames |-> NotComputed]

IdleNodeAnalysis == kind = "" /\ pc = "idle" /\ analysis = NoAnalysis
IdleNode == node = NoNode /\ derived = NoDerived /\ IdleNodeAnalysis
IdleReview ==
    request = <<>> /\ response = <<>> /\ review_pc = "idle" /\ detect = <<>> /\ results = <<>>
IdleCall == self = <<>> /\ thread = <<>> /\ heap = <<>> /\ refs = <<>> /\ returned = <<>>
IdleLog == slow = <<>> /\ mariadb = <<>>

\* construction of an analyzer: self.thresholds = self._load_thresholds()
Construct(files) ==
    /\ thresholds_file \in files
    /\ thresholds = load_thresholds(thresholds_file)

Compute(m, x) ==
    /\ ~derived[m].done
    /\ derived' = [derived EXCEPT ![m] = Computed(x)]
    /\ UNCHANGED <<thVars, node, kind, pc, analysis, notNode>>

QueriesPerSecond == Compute("queries_per_second", calculate_queries_per_second(node))
WritesPerSecond == Compute("writes_per_second", calculate_writes_per_second(node))
ReadsPerSecond == Compute("reads_per_second", calculate_reads_per_second(node))
ConnectionUtilization ==
    Compute("connection_utilization", calculate_connection_utilization(node))
BufferPoolHitRatio == Compute("buffer_pool_hit_ratio", calculate_buffer_pool_hit_ratio(node))
BufferPoolUsage == Compute("buffer_pool_usage", calculate_buffer_pool_usage(node))
SlowQueriesPerHour == Compute("slow_queries_per_hour", calculate_slow_queries_per_hour(node))

-----------------------------------------------------------------------------
(* Specification SpecNode: analyze_node_performance, one step per check *)

AfterBase(k) ==
    CASE k = "base" -> "done"
      [] k = "replication" -> "replication"
      [] k = "galera" -> "wsrep_ready"

Step(at, a, next) ==
    /\ pc = at
    /\ analysis' = a
    /\ pc' = IF a.raised THEN "raised" ELSE next
    /\ UNCHANGED <<thVars, node, derived, kind, notNode>>

StepQps == Step("qps", check_queries_per_second(analysis, node), "conn")
StepConnectionUtilization ==
    Step("conn", check_connection_utilization(thresholds, analysis, node), "hit")
StepBufferPoolHitRatio ==
    Step("hit", check_buffer_pool_hit_ratio(thresholds, analysis, node), "bp_usage")
StepBufferPoolUsage == Step("bp_usage", check_buffer_pool_usage(analysis, node), "slow")
StepSlowQueries == Step("slow", check_slow_queries(thresholds, analysis, node), AfterBase(kind))
StepReplication == Step("replication", check_replication(thresholds, analysis, node), "done")
StepWsrepReady == Step("wsrep_ready", check_wsrep_ready(analysis, node), "wsrep_cluster_status")
StepWsrepClusterStatus ==
    Step("wsrep_cluster_status", check_wsrep_cluster_status(analysis, node), "wsrep_local_state")
StepWsrepLocalState ==
    Step("wsrep_local_state", check_wsrep_local_state(analysis, node), "flow_control")
StepFlowControl ==
    Step("flow_control", check_flow_control(thresholds, analysis, node), "recv_queue")
StepRecvQueue == Step("recv_queue", check_recv_queue(thresholds, analysis, node), "send_queue")
StepSendQueue == Step("send_queue", check_send_queue(thresholds, analysis, node), "cert")
StepCertConflicts == Step("cert", check_cert_conflicts(analysis, node), "done")


InitMetrics ==
    /\ Construct({AbsentFile})
    /\ node \in MetricNodes
    /\ derived = NoDerived
    /\ IdleNodeAnalysis
    /\ IdleReview /\ IdleCall /\ IdleLog

NextMetrics ==
    \/ QueriesPerSecond
    \/ WritesPerSecond
    \/ ReadsPerSecond
    \/ ConnectionUtilization
    \/ BufferPoolHitRatio
    \/ BufferPoolUsage
    \/ SlowQueriesPerHour

SpecMetrics == InitMetrics /\ [][NextMetrics]_vars

InitNode ==
    /\ Construct(ThresholdFiles)
    /\ \E inp \in NodeInputs :
        /\ kind = inp[1]
        /\ node = inp[2]
        /\ analysis = NewAnalysis(inp[2])
    /\ pc = "qps"
    /\ derived = NoDerived
    /\ IdleReview /\ IdleCall /\ IdleLog

NextNode ==
    \/ StepQps
    \/ StepConnectionUtilization
    \/ StepBufferPoolHitRatio
    \/ StepBufferPoolUsage
    \/ StepSlowQueries
    \/ StepReplication
    \/ StepWsrepReady
    \/ StepWsrepClusterStatus
    \/ StepWsrepLocalState
    \/ StepFlowControl
    \/ StepRecvQueue
    \/ StepSendQueue
    \/ StepCertConflicts

SpecNode == InitNode /\ [][NextNode]_vars

-----------------------------------------------------------------------------
(* Claims about the derived metrics and the per-node analysis *)

NonNegative(x) == x.n >= 0 /\ x.d > 0

\* C3: every derived-metric function returns a finite value >= 0 for every
\* node snapshot, and the hit ratio with zero read requests is exactly 1.0
C3_MetricsNonNegative ==
    /\ \A m \in MetricNames : derived[m].done => NonNegative(derived[m].v)
    /\ (derived["buffer_pool_hit_ratio"].done
        /\ get_status_int(node, "Innodb_buffer_pool_read_requests", 1) = 0)
       => derived["buffer_pool_hit_ratio"].v = One

\* C1: once a check of analyze_node_performance has set the node status to
\* critical, every later check leaves it critical
C1_StatusNeverDowngraded ==
    [][analysis.status = "critical" => analysis'.status = "critical"]_vars

HasMetric(a, name, status) ==
    \E i \in 1..Len(a.metrics) : a.metrics[i].name = name /\ a.metrics[i].status = status

\* a critical connection check followed by a warning-level check, run to the end
C1_Witness ==
    /\ pc = "done"
    /\ analysis.status = "critical"
    /\ HasMetric(analysis, "connection_utilization", "critical")
    /\ \/ HasMetric(analysis, "buffer_pool_hit_ratio", "warning")
       \/ HasMetric(analysis, "wsrep_flow_control_paused", "warning")


\* the status of the named metric of a node analysis
MetricStatus(a, name) ==
    (CHOOSE m \in {a.metrics[i] : i \in 1..Len(a.metrics)} : m.name = name).status

HasFinding(a, severity, title) ==
    \E i \in 1..Len(a.findings) :
        a.findings[i].severity = severity /\ a.findings[i].title = title

\* the node analysis ran with the default server thresholds
DefaultHitThresholds ==
    LET bt == metric_thresholds(thresholds, "server", "buffer_pool_hit_ratio")
    IN  ~bt.raised /\ Get(bt.keys, "critical", 900) = 900
                   /\ Get(bt.keys, "warning", 950) = 950

HitRatio == calculate_buffer_pool_hit_ratio(node)

\* C17: with the default thresholds the hit-ratio metric is critical exactly
\* when the ratio is strictly below 0.90, warning exactly when it is at least
\* 0.90 and strictly below 0.95 (so exactly 0.90 is warning), and info from
\* exactly 0.95 upward
C17_HitRatioStrictlyBelow ==
    (pc = "done" /\ DefaultHitThresholds)
        => MetricStatus(analysis, "buffer_pool_hit_ratio") =
               IF HitRatio.n * 100 < 90 * HitRatio.d THEN "critical"
               ELSE IF HitRatio.n * 100 < 95 * HitRatio.d THEN "warning"
               ELSE "info"

\* a ratio of exactly 0.95 is analysed with the default thresholds
C17_Witness ==
    /\ pc = "done" /\ DefaultHitThresholds
    /\ HitRatio.n * 100 = 95 * HitRatio.d
    /\ MetricStatus(analysis, "buffer_pool_hit_ratio") = "info"

C17_ExactlyNinety ==
    /\ pc = "done" /\ DefaultHitThresholds
    /\ HitRatio.n * 100 = 90 * HitRatio.d
    /\ MetricStatus(analysis, "buffer_pool_hit_ratio") = "warning"

C17_JustBelow ==
    /\ pc = "done" /\ DefaultHitThresholds
    /\ HitRatio.n * 10000 \in {9499 * HitRatio.d, 8999 * HitRatio.d}

BreachTitle(name) ==
    CASE name = "connection_utilization" -> "Connection utilization critical"
      [] name = "buffer_pool_hit_ratio" -> "Buffer pool hit ratio critical"
      [] name = "slow_queries_per_hour" -> "High slow query rate"

\* C18: after analyze_node_performance, a critical connection-utilization,
\* hit-ratio or slow-queries-per-hour metric comes with node status critical
\* and a critical Finding of that check, and a warning one with a node status
\* of warning or critical
C18_BreachSetsNodeStatus ==
    pc = "done" =>
        \A name \in {"connection_utilization", "buffer_pool_hit_ratio",
                      "slow_queries_per_hour"} :
            /\ MetricStatus(analysis, name) = "critical"
                   => /\ analysis.status = "critical"
                      /\ HasFinding(analysis, "critical", BreachTitle(name))
            /\ MetricStatus(analysis, name) = "warning"
                   => analysis.status \in {"warning", "critical"}

-----------------------------------------------------------------------------
(* Request inputs *)

MaxNodes == 3

\* the non-empty sequences over S of length at most n
SeqsUpTo(S, n) == UNION {[1..k -> S] : k \in 1..n}

\* hostnames are the node positions
Numbered(nodes) == [i \in DOMAIN nodes |-> WithHost(nodes[i], i)]

\* counters of a node in the info range of every check, with a read-heavy load
BusyStatus ==
    StatusOf(<<Num(4), Num(10)>>, <<Num(0), Num(100)>>, <<Missing, NoneInt, Missing>>,
             <<Num(500), Num(400), Num(10), Num(60), Num(100)>>)
BusyVariables == VariablesOf(<<Num(4), Num(10)>>)
BusyUptime == SomeInt(100)

\* <<wsrep_ready, wsrep_local_state_comment>> by health of the node; "bare"
\* nodes report nothing but the wsrep values
GaleraHealth ==
    [bare |-> <<Txt("ON"), Missing>>, full |-> <<Txt("ON"), Txt("Synced")>>,
     nostate |-> <<Txt("ON"), Missing>>, down |-> <<Txt("OFF"), Txt("Synced")>>]

\* <<role, map holding the wsrep values, wsrep_cluster_size,
\*   wsrep_cluster_state_uuid, health>>
GaleraCases ==
    {<<"galera_node", "status", Num(3), Txt("u1"), "full">>,
     <<"galera_node", "wsrep", Num(2), Txt("u1"), "full">>,
     <<"master", "status", Num(2), Txt("u2"), "full">>,
     <<"galera_node", "status", Num(3), Missing, "bare">>,
     <<"galera_node", "wsrep", Num(3), Txt("u2"), "full">>,
     <<"galera_node", "status", Num(0), Txt(""), "full">>,
     <<"galera_node", "status", Num(3), Txt("u1"), "down">>,
     <<"standalone", "wsrep", Num(3), Missing, "bare">>,
     <<"galera_node", "status", Num(3), Txt("u1"), "nostate">>}

GaleraNode(g) ==
    LET w == Entry("wsrep_ready", GaleraHealth[g[5]][1])
             @@ Entry("wsrep_cluster_status", Txt("Primary"))
             @@ Entry("wsrep_local_state_comment", GaleraHealth[g[5]][2])
             @@ Entry("wsrep_flow_control_paused", Dec(1))
             @@ Entry("wsrep_cluster_size", g[3])
             @@ Entry("wsrep_cluster_state_uuid", g[4])
        base == IF g[5] = "bare" THEN <<>> ELSE BusyStatus
    IN  NodeData(0, g[1],
                 IF g[2] = "status" THEN base @@ w ELSE base,
                 IF g[5] = "bare" THEN <<>> ELSE BusyVariables,
                 None, None,
                 IF g[2] = "wsrep" THEN Some(w) ELSE None,
                 IF g[5] = "bare" THEN NoneInt ELSE BusyUptime)

GaleraRequests ==
    {ClusterReviewRequest("galera", Numbered(nodes)) :
        nodes \in SeqsUpTo({GaleraNode(g) : g \in GaleraCases}, MaxNodes)}

ReplicationNode(sv) ==
    NodeData(0, sv[1], BusyStatus, BusyVariables, sv[2], None, None, BusyUptime)

ReplicationRequests ==
    {ClusterReviewRequest("master_replica", Numbered(nodes)) :
        nodes \in SeqsUpTo({ReplicationNode(sv) : sv \in SlaveCases}, MaxNodes)}

\* a standalone node: in the info range of every check, or with nine of its
\* ten connections used
StandaloneCases == {<<Num(4), Num(10)>>, <<Num(9), Num(10)>>}

StandaloneNode(c) ==
    NodeData(0, "standalone",
             StatusOf(c, <<Num(0), Num(100)>>, <<Missing, NoneInt, Missing>>,
                      <<Num(500), Num(400), Num(10), Num(60), Num(100)>>),
             VariablesOf(c), None, None, None, BusyUptime)

StandaloneRequests ==
    {ClusterReviewRequest("standalone", Numbered(nodes)) :
        nodes \in SeqsUpTo({StandaloneNode(c) : c \in StandaloneCases}, MaxNodes)}

\* <<role, rpl_semi_sync_master_enabled or rpl_semi_sync_slave_enabled,
\*   Rpl_semi_sync_master_status, Rpl_semi_sync_master_clients, slave_status>>
SemiSyncCases ==
    {<<"master", Txt("ON"), Txt("ON"), Num(2), None>>,
     <<"master", Num(1), Txt("OFF"), Num(0), None>>,
     <<"master", Missing, Missing, Missing, None>>,
     <<"replica", Txt("ON"), Missing, Missing, Slave(Txt("Yes"), Txt("Yes"), Num(0))>>,
     <<"replica", Txt("OFF"), Missing, Missing, Slave(Txt("No"), Txt("Yes"), Num(0))>>}

SemiSyncNode(c) ==
    NodeData(0, c[1],
             BusyStatus @@ Entry("Rpl_semi_sync_master_status", c[3])
                        @@ Entry("Rpl_semi_sync_master_clients", c[4]),
             BusyVariables
                 @@ Entry(IF c[1] = "master" THEN "rpl_semi_sync_master_enabled"
                          ELSE "rpl_semi_sync_slave_enabled", c[2]),
             c[5], None, None, BusyUptime)

SemiSyncRequests ==
    {ClusterReviewRequest("semi_sync", Numbered(nodes)) :
        nodes \in SeqsUpTo({SemiSyncNode(c) : c \in SemiSyncCases}, MaxNodes)}

\* threshold files of the request-level specifications
ReviewFiles == {AbsentFile, EmptyFile, File(TunedDoc)}

-----------------------------------------------------------------------------
(* Specification SpecReview: one analyze call of a topology analyzer *)

Analyzers == {"galera", "replication", "standalone", "semi_sync"}

NoResponse == [raised |-> FALSE, topology_type |-> ""]

\* one call of analyzer k on the request, from entry to return
Analyze(k, resp) ==
    /\ review_pc = "start"
    /\ response' = resp
    /\ review_pc' = "done"
    /\ self' = [self EXCEPT ![k] = IF resp.raised THEN NewSelf
                                   ELSE [findings |-> resp.findings,
                                         recommendations |-> resp.recommendations]]
    /\ UNCHANGED <<thVars, nodeVars, request, detect, results, thread, heap, refs, returned, logVars>>

GaleraAnalyze ==
    /\ request.topology_type = "galera"
    /\ Analyze("galera", galera_analyze(thresholds, self["galera"], request))

ReplicationAnalyze ==
    /\ request.topology_type = "master_replica"
    /\ Analyze("replication", replication_analyze(thresholds, self["replication"], request))

StandaloneAnalyze ==
    /\ request.topology_type = "standalone"
    /\ Analyze("standalone", standalone_analyze(thresholds, self["standalone"], request))

SemiSyncAnalyze ==
    /\ request.topology_type = "semi_sync"
    /\ Analyze("semi_sync", semi_sync_analyze(thresholds, self["semi_sync"], request))

InitReview ==
    /\ Construct(ReviewFiles)
    /\ request \in GaleraRequests \cup ReplicationRequests \cup StandaloneRequests
                   \cup SemiSyncRequests
    /\ response = NoResponse
    /\ review_pc = "start"
    /\ detect = <<>> /\ results = <<>>
    /\ self = [k \in Analyzers |-> NewSelf]
    /\ thread = <<>> /\ heap = <<>> /\ refs = <<>> /\ returned = <<>>
    /\ IdleNode /\ IdleLog

NextReview ==
    \/ GaleraAnalyze
    \/ ReplicationAnalyze
    \/ StandaloneAnalyze
    \/ SemiSyncAnalyze

SpecReview == InitReview /\ [][NextReview]_vars

-----------------------------------------------------------------------------
(* Claims about one analyze call *)

Returned == review_pc = "done" /\ ~response.raised

GaleraReview == request.topology_type = "galera"
ReplicationReview == request.topology_type = "master_replica"

\* the raw value a node reports for a wsrep key, from either map
Reported(n, key) == get_wsrep_status(n, key, Missing)

\* two nodes of the request report different values for the key
ReportsDiffer(key) ==
    \E i, j \in DOMAIN request.nodes :
        /\ Reported(request.nodes[i], key) # Missing
        /\ Reported(request.nodes[j], key) # Missing
        /\ Reported(request.nodes[i], key) # Reported(request.nodes[j], key)

\* the nodes whose state the consistency check reads
CheckedNodes ==
    {i \in DOMAIN request.nodes :
        \/ request.nodes[i].role = "galera_node"
        \/ \A j \in DOMAIN request.nodes : request.nodes[j].role # "galera_node"}

CheckedSizes ==
    {z \in {get_wsrep_status_int(request.nodes[i], "wsrep_cluster_size", 0) : i \in CheckedNodes} :
        z > 0}
CheckedUuids ==
    {u \in {Reported(request.nodes[i], "wsrep_cluster_state_uuid") : i \in CheckedNodes} :
        RawTruthy(u)}
CheckedDiverge == Cardinality(CheckedSizes) > 1 \/ Cardinality(CheckedUuids) > 1
CheckedPrimary ==
    \E i \in CheckedNodes : Reported(request.nodes[i], "wsrep_cluster_status") = Txt("Primary")

PartitionReported ==
    /\ ~response.architecture.topology_valid
    /\ response.architecture.status = "critical"
    /\ response.overall_status = "critical"

HealthyScenario ==
    /\ GaleraReview /\ Len(request.nodes) = 3
    /\ \A i \in DOMAIN request.nodes :
        /\ Reported(request.nodes[i], "wsrep_ready") = Txt("ON")
        /\ Reported(request.nodes[i], "wsrep_cluster_status") = Txt("Primary")
        /\ Reported(request.nodes[i], "wsrep_flow_control_paused") = Dec(1)
        /\ Reported(request.nodes[i], "wsrep_cluster_size") = Num(3)

\* C6 as stated: three Galera nodes reporting wsrep_ready=ON, Primary, flow
\* control 0.001 and cluster size 3, nothing else being required, give a valid,
\* quorum-capable topology and overall status info
C6_FourValuesSuffice ==
    (Returned /\ HealthyScenario)
    => /\ response.architecture.topology_valid
       /\ response.architecture.quorum_capable
       /\ response.overall_status = "info"

SameRoles == CheckedNodes = DOMAIN request.nodes

NothingElseReported ==
    \A i \in DOMAIN request.nodes :
        /\ DOMAIN request.nodes[i].global_status \cup
           (IF request.nodes[i].wsrep_status.some THEN DOMAIN request.nodes[i].wsrep_status.v
            ELSE {})
           = {"wsrep_ready", "wsrep_cluster_status", "wsrep_flow_control_paused",
              "wsrep_cluster_size"}
        /\ request.nodes[i].global_variables = <<>>

\* C6: three Galera nodes reporting the four values give a valid,
\* quorum-capable topology when they share one role and report no differing
\* UUIDs; the overall status is info only if every node also reports a local
\* state of Synced or Donor/Desynced and the capacity is not oversized, and it
\* is warning when the nodes report nothing but the four values
C6_HealthyScenario ==
    (Returned /\ HealthyScenario)
    => /\ (SameRoles /\ Cardinality(CheckedUuids) <= 1)
            => /\ response.architecture.topology_valid
               /\ response.architecture.quorum_capable
       /\ response.overall_status = "info"
            => /\ \A i \in DOMAIN request.nodes :
                    Reported(request.nodes[i], "wsrep_local_state_comment")
                        \in {Txt("Synced"), Txt("Donor/Desynced")}
               /\ ~response.capacity.is_oversized
       /\ (SameRoles /\ NothingElseReported) => response.overall_status = "warning"

\* the scenario with synced nodes under load: overall status info
C6_Witness ==
    /\ Returned /\ HealthyScenario
    /\ response.architecture.topology_valid
    /\ response.architecture.quorum_capable
    /\ response.overall_status = "info"

\* the scenario with the four values alone: overall status warning
C6_BareWitness ==
    /\ Returned /\ HealthyScenario /\ SameRoles /\ NothingElseReported
    /\ response.overall_status = "warning"

\* a node of role replica whose slave status reports a thread not running
StoppedReplica(n) ==
    /\ n.role = "replica"
    /\ Truthy(n.slave_status)
    /\ \/ Upper(Str(Get(n.slave_status.v, "Slave_IO_Running", Txt("No")))) # "YES"
       \/ Upper(Str(Get(n.slave_status.v, "Slave_SQL_Running", Txt("No")))) # "YES"

NamesStoppedReplica(f, host) ==
    f.severity = "critical" /\ f.category = "replication" /\ f.node = host

\* C7: in an async-replication review every replica whose slave status reports
\* Slave_IO_Running or Slave_SQL_Running other than Yes has a critical node
\* analysis and a critical replication finding naming it, the architecture has
\* replication_healthy = False and the overall status is critical
C7_StoppedReplicaCritical ==
    (Returned /\ ReplicationReview)
    => \A i \in DOMAIN request.nodes :
        StoppedReplica(request.nodes[i])
        => /\ response.node_analyses[i].status = "critical"
           /\ \E k \in DOMAIN response.findings :
                NamesStoppedReplica(response.findings[k], request.nodes[i].hostname)
           /\ response.architecture.replication_healthy = SomeBool(FALSE)
           /\ response.overall_status = "critical"

\* one master and one replica whose IO thread is stopped
C7_Witness ==
    /\ Returned /\ ReplicationReview /\ Len(request.nodes) = 2
    /\ request.nodes[1].role = "master"
    /\ StoppedReplica(request.nodes[2])
    /\ Get(request.nodes[2].slave_status.v, "Slave_IO_Running", Missing) = Txt("No")
    /\ response.overall_status = "critical"

-----------------------------------------------------------------------------
(* Claims about the threshold configuration *)

StandaloneReview == request.topology_type = "standalone"

HasCategory(items, category) == \E i \in DOMAIN items : items[i].category = category

\* C13: the response of a standalone review holds at least one finding of
\* category availability and at least one recommendation of category
\* availability, for a single healthy node and for any other node count
C13_StandaloneAvailability ==
    (Returned /\ StandaloneReview)
        => /\ HasCategory(response.findings, "availability")
           /\ HasCategory(response.recommendations, "availability")

\* a single node with nothing else to report
C13_Witness ==
    /\ Returned /\ StandaloneReview
    /\ Len(request.nodes) = 1
    /\ response.overall_status = "info"
    /\ response.architecture.topology_valid
    /\ Len(response.findings) = 1

SemiSyncReview == request.topology_type = "semi_sync"

RoleCount(role) == Cardinality({i \in DOMAIN request.nodes : request.nodes[i].role = role})

\* a replica-role node that reports a slave status with a thread not running
SomeReplicaStopped ==
    \E i \in DOMAIN request.nodes :
        /\ request.nodes[i].role = "replica"
        /\ Truthy(request.nodes[i].slave_status)
        /\ is_replication_running(request.nodes[i]) # <<TRUE, TRUE>>

\* C19: the architecture status of a replication or semi-sync review stays
\* critical once the master-count check or the stopped-replication check has
\* set it: the zero-replicas check and the semi-sync-enabled check never
\* bring the returned status back to warning
C19_StatusOnlyMovesUp ==
    (Returned /\ (ReplicationReview \/ SemiSyncReview)
              /\ (RoleCount("master") # 1 \/ SomeReplicaStopped))
        => response.architecture.status = "critical"

\* C20: replication_healthy of the replication architecture assessment is
\* True exactly when is_replication_running reports both threads running for
\* every replica-role node
C20_HealthyIffAllReplicasRunning ==
    (Returned /\ ReplicationReview)
        => (response.architecture.replication_healthy.v
              <=> \A i \in DOMAIN request.nodes :
                     request.nodes[i].role = "replica"
                         => is_replication_running(request.nodes[i]) = <<TRUE, TRUE>>)

\* C8: whatever the threshold document lacks, no check of a node analysis
\* raises
C8_AnalysisNeverRaises == pc # "raised"

-----------------------------------------------------------------------------
(* ReviewService.detect_topology *)

wsrep_on_only(n) == Upper(Str(get_variable(n, "wsrep_on", Txt("OFF")))) = "ON"

\* the Galera indicators of one node: wsrep_on = ON, or a wsrep_cluster_size
\* status value that is true
galera_indicator(n) ==
    \/ Upper(Str(get_variable(n, "wsrep_on", Txt("OFF")))) = "ON"
    \/ RawTruthy(get_status(n, "wsrep_cluster_size", Missing))

RECURSIVE galera_detected(_)
\* the first loop: returns at the first node with an indicator
galera_detected(nodes) ==
    IF nodes = <<>> THEN FALSE
    ELSE IF galera_indicator(Head(nodes)) THEN TRUE
    ELSE galera_detected(Tail(nodes))

NoFlags == [has_master |-> FALSE, has_replica |-> FALSE, has_semi_sync |-> FALSE]

RECURSIVE replication_flags(_, _)
\* the second loop: has_master, has_replica and has_semi_sync after the nodes
replication_flags(nodes, flags) ==
    IF nodes = <<>> THEN flags
    ELSE LET n == Head(nodes)
             semi_sync_master == get_variable(n, "rpl_semi_sync_master_enabled", Txt("OFF"))
             semi_sync_slave == get_variable(n, "rpl_semi_sync_slave_enabled", Txt("OFF"))
         IN  replication_flags(Tail(nodes),
                [has_master |-> flags.has_master \/ Truthy(n.master_status),
                 has_replica |-> flags.has_replica \/ Truthy(n.slave_status),
                 has_semi_sync |-> \/ flags.has_semi_sync
                                   \/ Upper(Str(semi_sync_master)) = "ON"
                                   \/ Upper(Str(semi_sync_slave)) = "ON"])

detect_topology(req) ==
    LET flags == replication_flags(req.nodes, NoFlags)
    IN  IF galera_detected(req.nodes) THEN "galera"
        ELSE IF flags.has_replica
        THEN IF flags.has_semi_sync THEN "semi_sync" ELSE "master_replica"
        ELSE "standalone"

-----------------------------------------------------------------------------
(* Specification SpecDetect: topology detection on a request *)

\* <<wsrep_on, wsrep_cluster_size status, slave_status, master_status,
\*   rpl_semi_sync_master_enabled, rpl_semi_sync_slave_enabled>>
DetectCases ==
    {<<Missing, Missing, None, None, Missing, Missing>>,
     <<Txt("ON"), Missing, None, None, Missing, Missing>>,
     <<Txt("on"), Missing, Slave(Txt("Yes"), Txt("Yes"), Num(0)), None, Txt("ON"), Missing>>,
     <<Missing, Num(3), Slave(Txt("Yes"), Txt("Yes"), Num(0)), None, Missing, Missing>>,
     <<Txt("OFF"), Txt(""), None, None, Missing, Missing>>,
     <<Missing, Missing, Slave(Txt("Yes"), Txt("Yes"), Num(0)), None, Txt("OFF"), Missing>>,
     <<Missing, Missing, None, Some(Entry("File", Txt("bin.1"))), Txt("ON"), Missing>>,
     <<Missing, Missing, Slave(Txt("No"), Txt("Yes"), Num(0)), None, Missing, Txt("on")>>,
     <<Missing, Missing, Some(<<>>), None, Missing, Txt("ON")>>,
     <<Missing, Missing, None, Some(Entry("File", Txt("bin.1"))), Missing, Missing>>}

DetectNode(c) ==
    NodeData(0, "standalone", Entry("wsrep_cluster_size", c[2]),
             Entry("wsrep_on", c[1]) @@ Entry("rpl_semi_sync_master_enabled", c[5])
             @@ Entry("rpl_semi_sync_slave_enabled", c[6]),
             c[3], c[4], None, NoneInt)

DetectRequests ==
    {ClusterReviewRequest("standalone", Numbered(nodes)) :
        nodes \in SeqsUpTo({DetectNode(c) : c \in DetectCases}, MaxNodes)}

NotDetected == [done |-> FALSE, topology |-> ""]

\* detected_topology = self.detect_topology(request)
DetectTopology ==
    /\ review_pc = "start"
    /\ detect' = [done |-> TRUE, topology |-> detect_topology(request)]
    /\ review_pc' = "detected"
    /\ UNCHANGED <<thVars, request, response, results, notReview>>

\* request.topology_type = detected_topology, in auto_review
AssignDetected ==
    /\ review_pc = "detected"
    /\ request' = [request EXCEPT !.topology_type = detect.topology]
    /\ review_pc' = "assigned"
    /\ UNCHANGED <<thVars, detect, results, response, notReview>>

InitDetect ==
    /\ Construct({AbsentFile})
    /\ request \in DetectRequests
    /\ response = NoResponse
    /\ review_pc = "start"
    /\ detect = NotDetected /\ results = <<>>
    /\ IdleNode /\ IdleCall /\ IdleLog

NextDetect ==
    \/ DetectTopology
    \/ AssignDetected

SpecDetect == InitDetect /\ [][NextDetect]_vars

HasGaleraIndicator(n) ==
    \/ get_variable(n, "wsrep_on", Missing) \in {Txt("ON"), Txt("on"), Txt("On")}
    \/ get_status(n, "wsrep_cluster_size", Txt("")) # Txt("")
HasSlaveStatus(n) == n.slave_status.some /\ n.slave_status.v # <<>>
SemiSyncOn(n) ==
    \E key \in {"rpl_semi_sync_master_enabled", "rpl_semi_sync_slave_enabled"} :
        get_variable(n, key, Missing) \in {Txt("ON"), Txt("on"), Txt("On")}

AnyNodeHasGaleraIndicator == \E i \in DOMAIN request.nodes : HasGaleraIndicator(request.nodes[i])
AnyNodeHasSlaveStatus == \E i \in DOMAIN request.nodes : HasSlaveStatus(request.nodes[i])
AnyNodeSemiSyncOn == \E i \in DOMAIN request.nodes : SemiSyncOn(request.nodes[i])

\* C10: detect_topology returns galera when any node carries a Galera
\* indicator; otherwise semi_sync when some node has slave status and some node
\* has a semi-sync variable ON; otherwise master_replica when some node has
\* slave status; otherwise standalone
C10_DetectionPriority ==
    detect.done =>
        detect.topology =
            IF AnyNodeHasGaleraIndicator THEN "galera"
            ELSE IF AnyNodeHasSlaveStatus /\ AnyNodeSemiSyncOn THEN "semi_sync"
            ELSE IF AnyNodeHasSlaveStatus THEN "master_replica"
            ELSE "standalone"

\* a Galera indicator next to slave status and semi-sync variables, detected
\* as galera and assigned to the request
C10_Witness ==
    /\ review_pc = "assigned" /\ request.topology_type = "galera"
    /\ AnyNodeHasSlaveStatus /\ AnyNodeSemiSyncOn
    /\ \A i \in DOMAIN request.nodes : get_variable(request.nodes[i], "wsrep_on", Missing) = Missing

-----------------------------------------------------------------------------
(* SlowQueryLogAnalyzer: the text a pattern captures and its conversion *)

\* A captured token is a sequence of characters; [\d.]+ captures digits and dots.
DigitVal(c) == CASE c = "1" -> 1 [] c = "2" -> 2 [] c = "3" -> 3 [] c = "7" -> 7 [] OTHER -> 0

Dots(tok) == Cardinality({i \in DOMAIN tok : tok[i] = "."})

\* float(tok) succeeds on digits with at most one dot and at least one digit;
\* otherwise it raises ValueError
float_ok(tok) == Dots(tok) <= 1 /\ Dots(tok) < Len(tok)

RECURSIVE DigitsValue(_, _)
\* the decimal value of the digits of tok, skipping the dot
DigitsValue(tok, acc) ==
    IF tok = <<>> THEN acc
    ELSE DigitsValue(Tail(tok), IF Head(tok) = "." THEN acc ELSE 10 * acc + DigitVal(Head(tok)))

\* float(tok) in hundredths, for a token with at most two fractional digits
float_centi(tok) ==
    LET dot == IF Dots(tok) = 0 THEN Len(tok) + 1 ELSE CHOOSE i \in DOMAIN tok : tok[i] = "."
        decimals == IF Dots(tok) = 0 THEN 0 ELSE Len(tok) - dot
    IN  DigitsValue(tok, 0) * (IF decimals = 0 THEN 100 ELSE IF decimals = 1 THEN 10 ELSE 1)

NoToken == [some |-> FALSE, v |-> <<>>]
Token(tok) == [some |-> TRUE, v |-> tok]

\* what the three patterns capture in one line
Line(query_time, lock_time, rows_examined) ==
    [query_time |-> query_time, lock_time |-> lock_time, rows_examined |-> rows_examined]

NewSummary ==
    [total_queries |-> 0, total_query_time |-> 0, max_query_time |-> 0,
     avg_query_time |-> Zero, total_lock_time |-> 0, queries_over_10s |-> 0,
     queries_over_60s |-> 0, high_rows_examined |-> 0]

Max(a, b) == IF a >= b THEN a ELSE b

\* one iteration of "for line in lines": [raised, summary]
scan_line(summary, line) ==
    LET qt == line.query_time
        lt == line.lock_time
        query_time == float_centi(qt.v)
        s1 == IF qt.some
              THEN [summary EXCEPT
                       !.total_queries = @ + 1,
                       !.total_query_time = @ + query_time,
                       !.max_query_time = Max(@, query_time),
                       !.queries_over_10s = IF query_time > 1000 THEN @ + 1 ELSE @,
                       !.queries_over_60s = IF query_time > 6000 THEN @ + 1 ELSE @]
              ELSE summary
        s2 == IF lt.some THEN [s1 EXCEPT !.total_lock_time = @ + float_centi(lt.v)] ELSE s1
        s3 == IF line.rows_examined.some /\ line.rows_examined.v > 1000000
              THEN [s2 EXCEPT !.high_rows_examined = @ + 1]
              ELSE s2
    IN  IF qt.some /\ ~float_ok(qt.v) THEN [raised |-> TRUE, summary |-> summary]
        ELSE IF lt.some /\ ~float_ok(lt.v) THEN [raised |-> TRUE, summary |-> s1]
        ELSE [raised |-> FALSE, summary |-> s3]

\* summary["avg_query_time"] after the loop
with_average(summary) ==
    IF summary.total_queries > 0
    THEN [summary EXCEPT !.avg_query_time = Reduce(summary.total_query_time,
                                                   100 * summary.total_queries)]
    ELSE summary

\* SlowQueryLogAnalyzer._generate_findings
slow_generate_findings(summary) ==
    (IF summary.queries_over_60s > 0
     THEN <<Finding("warning", "performance", "Very slow queries", 0)>> ELSE <<>>)
    \o (IF summary.high_rows_examined > 0
        THEN <<Finding("warning", "performance", "Queries examining many rows", 0)>>
        ELSE <<>>)

slow_generate_recommendations(summary) ==
    IF summary.queries_over_60s > 0
    THEN <<Recommendation(2, "performance", "Optimize slow queries")>> ELSE <<>>

-----------------------------------------------------------------------------
(* Specification SpecLog: SlowQueryLogAnalyzer.analyze_log_content, line by line *)

MaxLines == 2

LineCases ==
    {Line(NoToken, NoToken, NoneInt),
     Line(Token(<<"7">>), NoToken, NoneInt),
     Line(Token(<<"1", "1">>), NoToken, NoneInt),
     Line(Token(<<"7", "1">>), NoToken, NoneInt),
     Line(Token(<<"1", ".", "7">>), NoToken, NoneInt),
     Line(Token(<<"1", ".">>), NoToken, NoneInt),
     Line(Token(<<".", "7">>), NoToken, NoneInt),
     Line(Token(<<".">>), NoToken, NoneInt),
     Line(Token(<<"1", ".", "2", ".", "3">>), NoToken, NoneInt),
     Line(Token(<<"7">>), Token(<<"1">>), NoneInt),
     Line(NoToken, Token(<<".">>), NoneInt),
     Line(NoToken, NoToken, SomeInt(5)),
     Line(NoToken, NoToken, SomeInt(2000000)),
     Line(Token(<<"7", "1">>), Token(<<"1">>), SomeInt(2000000))}

\* log_content.split('\n') of the texts analysed
Logs == SeqsUpTo(LineCases, MaxLines)

\* self.findings = []; self.recommendations = []; the summary dictionary
StartLog(lines) ==
    [pc |-> "scan", lines |-> lines, read |-> 0, summary |-> NewSummary,
     findings |-> <<>>, recommendations |-> <<>>]

ScanLine ==
    /\ slow.pc = "scan"
    /\ slow.lines # <<>>
    /\ LET r == scan_line(slow.summary, Head(slow.lines))
       IN  slow' = [slow EXCEPT !.pc = IF r.raised THEN "raised" ELSE "scan",
                                !.lines = Tail(@), !.read = @ + 1,
                                !.summary = r.summary]
    /\ UNCHANGED <<thVars, mariadb, notLog>>

\* after the loop: the average, the findings and the returned dictionary
FinishLog ==
    /\ slow.pc = "scan"
    /\ slow.lines = <<>>
    /\ LET summary == with_average(slow.summary)
       IN  slow' = [slow EXCEPT !.pc = "done", !.summary = summary,
                                !.findings = slow_generate_findings(summary),
                                !.recommendations = slow_generate_recommendations(summary)]
    /\ UNCHANGED <<thVars, mariadb, notLog>>

InitLog ==
    /\ Construct({AbsentFile})
    /\ \E lines \in Logs : slow = StartLog(lines)
    /\ mariadb = <<>>
    /\ IdleNode /\ IdleReview /\ IdleCall

NextLog ==
    \/ ScanLine
    \/ FinishLog

SpecLog == InitLog /\ [][NextLog]_vars

\* C9: the slow-query-log classifier returns a result without raising for
\* every input text; a line whose captured field is not a valid number changes
\* no counter
C9_ClassifierNeverRaises == slow.pc # "raised"

\* how many of the three over-threshold counts of the summary are nonzero
NonzeroCounts(summary) ==
    (IF summary.queries_over_10s > 0 THEN 1 ELSE 0)
    + (IF summary.queries_over_60s > 0 THEN 1 ELSE 0)
    + (IF summary.high_rows_examined > 0 THEN 1 ELSE 0)

\* C25: the slow-query-log classifier returns one Finding for each nonzero
\* over-threshold count (queries over 10 s, queries over 60 s, entries examining
\* more than 1M rows), and none when the three counts are zero
C25_FindingPerNonzeroCount ==
    slow.pc = "done" => Len(slow.findings) = NonzeroCounts(slow.summary)

-----------------------------------------------------------------------------
(* Specification SpecConc: two reviews in two threads of one ReviewService,
   both reaching the shared GaleraAnalyzer *)

Threads == {1, 2}

\* <<role, map, wsrep_cluster_size, wsrep_cluster_state_uuid, health>>
ConcCases ==
    {<<"galera_node", "status", Num(3), Txt("u1"), "full">>,
     <<"galera_node", "status", Num(3), Txt("u1"), "down">>,
     <<"galera_node", "status", Num(3), Txt("u1"), "nostate">>}

ConcRequests ==
    {ClusterReviewRequest("galera", Numbered(nodes)) :
        nodes \in SeqsUpTo({GaleraNode(g) : g \in ConcCases}, 2)}

\* a thread entering GaleraAnalyzer.analyze with its request
Entering(req) ==
    [pc |-> "reset", request |-> req, loc |-> NewLocals, next |-> 1, response |-> NoResponse]

\* the statement of analyze thread t runs next, on the shared accumulators
ThreadStep(t, at, fr, to) ==
    /\ thread[t].pc = at
    /\ self' = [self EXCEPT !["galera"] = fr.self]
    /\ thread' = [thread EXCEPT ![t].loc = fr.loc, ![t].pc = to]
    /\ UNCHANGED <<thVars, nodeVars, reviewVars, heap, refs, returned, logVars>>

FrameOf(t) == Frame(self["galera"], thread[t].loc)

\* self.findings = []; self.recommendations = []
ThreadReset(t) == ThreadStep(t, "reset", reset_accumulators(FrameOf(t)), "nodes")

\* one iteration of the node loop, ending in self.findings.extend(...)
ThreadNode(t) ==
    /\ thread[t].pc = "nodes"
    /\ thread[t].next <= Len(thread[t].request.nodes)
    /\ LET fr == analyze_node("galera", thresholds, FrameOf(t),
                              thread[t].request.nodes[thread[t].next])
       IN  /\ self' = [self EXCEPT !["galera"] = fr.self]
           /\ thread' = [thread EXCEPT ![t].loc = fr.loc, ![t].next = @ + 1]
    /\ UNCHANGED <<thVars, nodeVars, reviewVars, heap, refs, returned, logVars>>

\* the assessments and the self.add_recommendation calls
ThreadRecommend(t) ==
    /\ thread[t].next > Len(thread[t].request.nodes)
    /\ ThreadStep(t, "nodes", galera_recommend(thresholds, FrameOf(t), thread[t].request),
                  "respond")

\* return ClusterReviewResponse(..., findings=self.findings, ...)
ThreadRespond(t) ==
    /\ thread[t].pc = "respond"
    /\ thread' = [thread EXCEPT ![t].pc = "done",
                                ![t].response = respond("galera", FrameOf(t))]
    /\ UNCHANGED <<thVars, nodeVars, reviewVars, self, heap, refs, returned, logVars>>

InitConc ==
    /\ Construct({AbsentFile})
    /\ self = [k \in Analyzers |-> NewSelf]
    /\ \E ra, rb \in ConcRequests : thread = [t \in Threads |-> Entering(IF t = 1 THEN ra ELSE rb)]
    /\ heap = <<>> /\ refs = <<>> /\ returned = <<>>
    /\ IdleNode /\ IdleReview /\ IdleLog

NextConc ==
    \/ \E t \in Threads : ThreadReset(t)
    \/ \E t \in Threads : ThreadNode(t)
    \/ \E t \in Threads : ThreadRecommend(t)
    \/ \E t \in Threads : ThreadRespond(t)

SpecConc == InitConc /\ [][NextConc]_vars

\* C4: in every interleaving of two concurrent reviews through the shared
\* analyzer, each response holds exactly the findings and recommendations
\* derived from its own request
C4_ResponsesIndependent ==
    \A t \in Threads :
        thread[t].pc = "done"
        => LET alone == galera_analyze(thresholds, NewSelf, thread[t].request)
           IN  /\ thread[t].response.findings = alone.findings
               /\ thread[t].response.recommendations = alone.recommendations

-----------------------------------------------------------------------------
(* MaxScaleAnalyzer.analyze, for configurations without services and without
   connection counts *)

\* a server state is a list of words, e.g. <<"Master", "Running">>
Lower(w) ==
    CASE w = "Down" -> "down" [] w = "Running" -> "running"
      [] w = "Maintenance" -> "maintenance" [] w = "Master" -> "master"
      [] w = "Slave" -> "slave" [] OTHER -> w

\* word in server.state.lower()
StateHas(state, word) == \E i \in DOMAIN state.v : Lower(state.v[i]) = word

MaxScaleServer(name, state, queries) == [name |-> name, state |-> state, queries |-> queries]

MaxScaleConfig(servers) == [enabled |-> TRUE, servers |-> servers, services |-> <<>>]

\* _analyze_servers
analyze_servers(maxscale) ==
    LET servers == maxscale.servers
        down == \E i \in DOMAIN servers : servers[i].state.some /\ StateHas(servers[i].state, "down")
        maintenance ==
            \E i \in DOMAIN servers :
                /\ servers[i].state.some
                /\ ~StateHas(servers[i].state, "down")
                /\ StateHas(servers[i].state, "maintenance")
    IN  IF servers = <<>>
        THEN <<Finding("warning", "configuration", "No servers defined", 0)>>
        ELSE (IF down THEN <<Finding("critical", "availability", "Servers down", 0)>> ELSE <<>>)
             \o (IF maintenance
                 THEN <<Finding("warning", "availability", "Servers in maintenance", 0)>>
                 ELSE <<>>)

\* _analyze_services, with no service defined
analyze_services(maxscale) ==
    IF maxscale.services = <<>>
    THEN <<Finding("warning", "configuration", "No services defined", 0)>>
    ELSE <<>>

\* _analyze_routing: findings, then recommendations
analyze_routing_findings(maxscale, node_count) ==
    IF Len(maxscale.servers) < node_count
    THEN <<Finding("warning", "configuration", "Not all nodes in MaxScale", 0)>>
    ELSE <<>>

analyze_routing_recommendations(maxscale) ==
    IF Len(maxscale.servers) = 1
    THEN <<Recommendation(2, "availability", "Add more backend servers")>>
    ELSE <<>>

\* round(num / den, 0) in Python: the nearest integer, a tie to the even one
RoundHalfEven(num, den) ==
    LET f == num \div den
        r2 == 2 * (num % den)
    IN  IF r2 > den \/ (r2 = den /\ f % 2 = 1) THEN f + 1 ELSE f

\* s.queries or 0
queries_or_zero(server) == IF server.queries.some THEN server.queries.v ELSE 0

RECURSIVE sum_queries(_)
sum_queries(servers) ==
    IF servers = <<>> THEN 0
    ELSE queries_or_zero(Head(servers)) + sum_queries(Tail(servers))

\* server_stats["query_pct"], in tenths of a percent: round(q / total * 100, 1)
query_pct(server, total_queries) ==
    IF total_queries > 0 /\ queries_or_zero(server) # 0
    THEN SomeInt(RoundHalfEven(server.queries.v * 1000, total_queries))
    ELSE NoneInt

\* "master" not in (s["state"] or "").lower()
not_master(server) == ~(server.state.some /\ StateHas(server.state, "master"))

\* _calculate_load_distribution: imbalance_pct in tenths of a percent
calculate_load_distribution(maxscale) ==
    LET servers == maxscale.servers
        total_queries == sum_queries(servers)
        counted == {i \in DOMAIN servers :
                       query_pct(servers[i], total_queries).some /\ not_master(servers[i])}
        query_pcts == {query_pct(servers[i], total_queries).v : i \in counted}
        max_pct == CHOOSE x \in query_pcts : \A y \in query_pcts : y <= x
        min_pct == CHOOSE x \in query_pcts : \A y \in query_pcts : x <= y
        imbalance_pct == IF Cardinality(counted) > 1 THEN max_pct - min_pct ELSE 0
    IN  [balanced |-> ~(imbalance_pct > 200), imbalance_pct |-> imbalance_pct]

\* deviation > 30, deviation = abs(queries - expected) / expected * 100 with
\* expected = slave_total / slave_count when that is positive, else 0
deviates(queries, slave_total, slave_count) ==
    slave_total > 0 /\ Abs(queries * slave_count - slave_total) * 100 > 30 * slave_total

\* _analyze_load_distribution, "Check for unbalanced load": the servers that get
\* an "Unbalanced read distribution" finding and a recommendation, in order
unbalanced_servers(servers) ==
    LET with_queries == SelectSeq(servers, LAMBDA s : queries_or_zero(s) # 0)
        slave_queries ==
            SelectSeq(with_queries, LAMBDA s : s.state.some /\ StateHas(s.state, "slave"))
        slave_total == sum_queries(slave_queries)
    IN  IF Len(with_queries) > 1 /\ sum_queries(with_queries) > 0 /\ Len(slave_queries) > 1
        THEN SelectSeq(slave_queries,
                       LAMBDA s : deviates(s.queries.v, slave_total, Len(slave_queries)))
        ELSE <<>>

unbalanced_findings(servers) ==
    [i \in DOMAIN unbalanced_servers(servers) |->
        Finding("warning", "performance", "Unbalanced read distribution", 0)]

unbalanced_recommendations(servers) ==
    [i \in DOMAIN unbalanced_servers(servers) |->
        Recommendation(3, "performance", "Review load balancing configuration")]

RECURSIVE idle_servers(_)
\* _analyze_load_distribution: a running server with queries == 0, per server
idle_servers(servers) ==
    IF servers = <<>> THEN <<>>
    ELSE (IF /\ Head(servers).state.some
             /\ StateHas(Head(servers).state, "running")
             /\ Head(servers).queries = SomeInt(0)
          THEN <<Finding("warning", "configuration", "Server receiving no queries",
                         Head(servers).name)>>
          ELSE <<>>)
         \o idle_servers(Tail(servers))

maxscale_findings(maxscale, node_count) ==
    analyze_servers(maxscale) \o analyze_services(maxscale)
    \o analyze_routing_findings(maxscale, node_count)
    \o unbalanced_findings(maxscale.servers) \o idle_servers(maxscale.servers)

maxscale_recommendations(maxscale) ==
    analyze_routing_recommendations(maxscale) \o unbalanced_recommendations(maxscale.servers)

HasSeverity(findings, sev) == \E i \in DOMAIN findings : findings[i].severity = sev

\* "Determine overall health": [healthy, status]
maxscale_health(findings) ==
    IF HasSeverity(findings, "critical") THEN [healthy |-> FALSE, status |-> "critical"]
    ELSE IF HasSeverity(findings, "warning") THEN [healthy |-> TRUE, status |-> "warning"]
    ELSE [healthy |-> TRUE, status |-> "info"]

-----------------------------------------------------------------------------
(* List objects: the lists the analyzers' attributes and results refer to *)

Mem(h, r) == [heap |-> h, refs |-> r]

clear_lists_in_place(mem, k) ==
    [mem EXCEPT !.heap[mem.refs[k].findings] = <<>>,
                !.heap[mem.refs[k].recommendations] = <<>>]

\* self.findings = []; self.recommendations = []: two new list objects
rebind_lists(mem, k) ==
    [heap |-> mem.heap \o << <<>>, <<>> >>,
     refs |-> [mem.refs EXCEPT ![k] = [findings |-> Len(mem.heap) + 1,
                                       recommendations |-> Len(mem.heap) + 2]]]

\* self.findings.extend / append and self.recommendations.append
extend_lists(mem, k, findings, recommendations) ==
    [mem EXCEPT !.heap[mem.refs[k].findings] = @ \o findings,
                !.heap[mem.refs[k].recommendations] = @ \o recommendations]

\* the lists a validated response model holds: copies in two new objects
copy_lists(mem, findings, recommendations) ==
    [mem EXCEPT !.heap = @ \o <<findings, recommendations>>]

SelfOf(mem, k) ==
    [findings |-> mem.heap[mem.refs[k].findings],
     recommendations |-> mem.heap[mem.refs[k].recommendations]]

RECURSIVE scan_lines(_, _)
\* the loop of analyze_log_content over all lines
scan_lines(summary, lines) ==
    IF lines = <<>> THEN [raised |-> FALSE, summary |-> summary]
    ELSE LET r == scan_line(summary, Head(lines))
         IN  IF r.raised THEN r ELSE scan_lines(r.summary, Tail(lines))

-----------------------------------------------------------------------------
(* Specification SpecSeq: successive calls on the same analyzer instances *)

MaxCalls == 3

Instances == {"replication", "maxscale", "slow"}

SeqReplicationRequests ==
    {ClusterReviewRequest("master_replica", Numbered(<<ReplicationNode(<<"master", None>>),
                                                       ReplicationNode(sv)>>)) :
        sv \in {<<"replica", Slave(Txt("Yes"), Txt("Yes"), Num(0))>>,
                <<"replica", Slave(Txt("No"), Txt("Yes"), Num(0))>>,
                <<"replica", Slave(Txt("Yes"), Txt("Yes"), Num(400))>>}}

Running == Some(<<"Master", "Running">>)
SeqMaxScaleConfigs ==
    {MaxScaleConfig(<<>>),
     MaxScaleConfig(<<MaxScaleServer(1, Running, NoneInt)>>),
     MaxScaleConfig(<<MaxScaleServer(1, Running, SomeInt(0)),
                      MaxScaleServer(2, Some(<<"Down">>), NoneInt)>>),
     MaxScaleConfig(<<MaxScaleServer(1, Running, NoneInt),
                      MaxScaleServer(2, Some(<<"Maintenance", "Running">>), NoneInt)>>)}

SeqLogs ==
    {<<Line(NoToken, NoToken, NoneInt)>>,
     <<Line(Token(<<"7", "1">>), NoToken, NoneInt)>>,
     <<Line(Token(<<"7">>), NoToken, NoneInt), Line(NoToken, NoToken, SomeInt(2000000))>>,
     <<Line(Token(<<"7", "1">>), Token(<<"1">>), SomeInt(2000000))>>,
     <<Line(Token(<<"1", ".", "2", ".", "3">>), NoToken, NoneInt)>>}

\* what a call returned: the list objects its result refers to, its other
\* values, and the result of the same call on a newly constructed instance
Result(k, findings, recommendations, value, fresh) ==
    [kind |-> k, findings |-> findings, recommendations |-> recommendations,
     value |-> value, fresh |-> fresh]

Fresh(findings, recommendations, value) ==
    [findings |-> findings, recommendations |-> recommendations, value |-> value]

\* the call stores mem and returns result, or raises
Call(mem, raised, result) ==
    /\ Len(returned) < MaxCalls
    /\ heap' = mem.heap
    /\ refs' = mem.refs
    /\ returned' = IF raised THEN Append(returned, [kind |-> "raised"])
                   ELSE Append(returned, result)
    /\ UNCHANGED <<thVars, nodeVars, reviewVars, self, thread, logVars>>

\* ReplicationAnalyzer.analyze: the response holds copies of the two lists
ReturnReplication(m2, resp, alone) ==
    Call(copy_lists(m2, resp.findings, resp.recommendations), FALSE,
         Result("replication", Len(m2.heap) + 1, Len(m2.heap) + 2, resp.overall_status,
                Fresh(alone.findings, alone.recommendations, alone.overall_status)))

ExtendReplication(m1, resp, alone) ==
    ReturnReplication(extend_lists(m1, "replication", resp.findings, resp.recommendations),
                      resp, alone)

AnalyzeReplication(m1, req) ==
    ExtendReplication(m1, replication_analyze(thresholds, SelfOf(m1, "replication"), req),
                      replication_analyze(thresholds, NewSelf, req))

CallReplication ==
    \E req \in SeqReplicationRequests :
        AnalyzeReplication(rebind_lists(Mem(heap, refs), "replication"), req)

\* MaxScaleAnalyzer.analyze: the result refers to the analyzer's own lists
ReturnMaxScale(m2, findings, recommendations) ==
    Call(m2, FALSE,
         Result("maxscale", m2.refs["maxscale"].findings, m2.refs["maxscale"].recommendations,
                maxscale_health(SelfOf(m2, "maxscale").findings),
                Fresh(findings, recommendations, maxscale_health(findings))))

ExtendMaxScale(m1, findings, recommendations) ==
    ReturnMaxScale(extend_lists(m1, "maxscale", findings, recommendations),
                   findings, recommendations)

CallMaxScale ==
    \E maxscale \in SeqMaxScaleConfigs, node_count \in 1..2 :
        ExtendMaxScale(rebind_lists(Mem(heap, refs), "maxscale"),
                       maxscale_findings(maxscale, node_count),
                       maxscale_recommendations(maxscale))

\* SlowQueryLogAnalyzer.analyze_log_content as CombinedLogAnalyzer calls it
\* for each node on its one slow_query_analyzer
ReturnSlowQuery(m1, m2, raised, summary, findings, recommendations) ==
    Call(IF raised THEN m1 ELSE m2, raised,
         Result("slow", m2.refs["slow"].findings, m2.refs["slow"].recommendations, summary,
                Fresh(findings, recommendations, summary)))

ExtendSlowQuery(m1, raised, summary, findings, recommendations) ==
    ReturnSlowQuery(m1, extend_lists(m1, "slow", findings, recommendations), raised,
                    summary, findings, recommendations)

GenerateSlowQuery(m1, raised, summary) ==
    ExtendSlowQuery(m1, raised, summary, slow_generate_findings(summary),
                    slow_generate_recommendations(summary))

ScanSlowQuery(m1, scan) == GenerateSlowQuery(m1, scan.raised, with_average(scan.summary))

CallSlowQuery ==
    \E lines \in SeqLogs :
        ScanSlowQuery(rebind_lists(Mem(heap, refs), "slow"), scan_lines(NewSummary, lines))

InitSeq ==
    /\ Construct({AbsentFile})
    /\ heap = [a \in 1..6 |-> <<>>]
    /\ refs = [replication |-> [findings |-> 1, recommendations |-> 2],
               maxscale |-> [findings |-> 3, recommendations |-> 4],
               slow |-> [findings |-> 5, recommendations |-> 6]]
    /\ returned = <<>>
    /\ self = <<>> /\ thread = <<>>
    /\ IdleNode /\ IdleReview /\ IdleLog

NextSeq ==
    \/ CallReplication
    \/ CallMaxScale
    \/ CallSlowQuery

SpecSeq == InitSeq /\ [][NextSeq]_vars

Returns == {i \in DOMAIN returned : returned[i].kind # "raised"}

\* C5: after any sequence of calls on the same instances, every result
\* returned so far, read through the lists it refers to, equals the result of
\* that call on a newly constructed instance
C5_ResultsFreshAndStable ==
    \A i \in Returns :
        /\ heap[returned[i].findings] = returned[i].fresh.findings
        /\ heap[returned[i].recommendations] = returned[i].fresh.recommendations
        /\ returned[i].value = returned[i].fresh.value

\* two slow-query results with findings collected from the one classifier,
\* followed by a third call
C5_Witness ==
    /\ Len(returned) = 3
    /\ returned[1].kind = "slow" /\ returned[2].kind = "slow"
    /\ heap[returned[1].findings] # <<>>
    /\ heap[returned[2].findings] # heap[returned[1].findings]
    /\ returned[3].kind = "maxscale"

-----------------------------------------------------------------------------
(* SizingAnalyzer.analyze (config_analyzer.py) *)

\* the system_resources object of a request body: the keys the client sent
ResourcesBody(cpu_cores, ram_gb, disk_total_gb, cpu_utilization_pct, disk_type) ==
    [cpu_cores |-> cpu_cores, ram_gb |-> ram_gb, disk_total_gb |-> disk_total_gb,
     cpu_utilization_pct |-> cpu_utilization_pct]
    @@ (IF disk_type = "" THEN <<>> ELSE [disk_type |-> disk_type])

\* validation of the body by the SystemResources model: declared fields are
\* kept, keys the model does not declare are ignored
parse_system_resources(body) ==
    SystemResources(body.cpu_cores, body.ram_gb, body.disk_total_gb, NoneInt,
                    body.cpu_utilization_pct, NoneInt)

\* getattr(node.system_resources, 'disk_type', None)
getattr_disk_type(res) ==
    IF "disk_type" \in DOMAIN res THEN Some(res.disk_type) ELSE None

\* one entry of node_resources_list
node_resources(n) ==
    IF n.system_resources.some
    THEN [hostname |-> n.hostname, cpu_cores |-> SomeInt(n.system_resources.v.cpu_cores),
          ram_gb |-> n.system_resources.v.ram_gb,
          disk_total_gb |-> n.system_resources.v.disk_total_gb,
          disk_type |-> getattr_disk_type(n.system_resources.v)]
    ELSE [hostname |-> n.hostname, cpu_cores |-> NoneInt, ram_gb |-> 0,
          disk_total_gb |-> 0, disk_type |-> None]

SetMax(S) == CHOOSE x \in S : \A y \in S : y <= x
SetMin(S) == CHOOSE x \in S : \A y \in S : x <= y

Inconsistency(resource, severity) == [resource |-> resource, severity |-> severity]

cpu_always_differs(cpu_values) == TRUE

\* "if len(cpu_values) > 1"
cpu_differs(cpu_values) == Cardinality(cpu_values) > 1

\* the checks on the nodes that carry resources, two or more of them
check_consistency(with) ==
    LET idx == 1..Len(with)
        cpu_values == {with[i].cpu_cores.v : i \in idx}
        ram_values == {with[i].ram_gb : i \in idx}
        disk_values == {with[i].disk_total_gb : i \in {j \in idx : with[j].disk_total_gb # 0}}
        disk_types == {with[i].disk_type.v :
                          i \in {j \in idx : with[j].disk_type.some
                                             /\ with[j].disk_type.v # ""}}
        disk_differs == Cardinality(disk_values) > 1
    IN  [is_consistent |->
             ~(\/ cpu_differs(cpu_values) \/ Cardinality(ram_values) > 1
               \/ disk_differs \/ Cardinality(disk_types) > 1),
         inconsistencies |->
             (IF cpu_differs(cpu_values) THEN <<Inconsistency("cpu_cores", "warning")>>
              ELSE <<>>)
             \o (IF Cardinality(ram_values) > 1 THEN <<Inconsistency("ram_gb", "warning")>>
                 ELSE <<>>)
             \* only flagged if the difference is above 10% of the largest
             \o (IF disk_differs /\ 10 * (SetMax(disk_values) - SetMin(disk_values))
                                        > SetMax(disk_values)
                 THEN <<Inconsistency("disk_total_gb", "warning")>> ELSE <<>>)
             \o (IF Cardinality(disk_types) > 1
                 THEN <<Inconsistency("disk_type", "critical")>> ELSE <<>>),
         compared |-> TRUE]

\* result["resource_consistency"]
resource_consistency(req) ==
    LET list == [i \in 1..Len(req.nodes) |-> node_resources(req.nodes[i])]
    IN  [node_resources |-> list]
        @@ (IF Len(SelectSeq(list, LAMBDA r : r.cpu_cores.some)) >= 2
            THEN check_consistency(SelectSeq(list, LAMBDA r : r.cpu_cores.some))
            ELSE [is_consistent |-> TRUE, inconsistencies |-> <<>>, compared |-> FALSE])

\* (max_used / max_conn) * 100 of one node, 0 when max_conn <= 0
sizing_connection_util(n) ==
    LET max_conn == get_variable_int(n, "max_connections", 1000)
        max_used == get_status_int(n, "Max_used_connections", 0)
    IN  IF max_conn > 0 THEN Frac(100 * max_used, max_conn) ELSE Zero

\* cpu_utilization_pct of one node when it has a non-zero one
sizing_cpu_util(n) ==
    IF /\ n.system_resources.some
       /\ n.system_resources.v.cpu_utilization_pct.some
       /\ n.system_resources.v.cpu_utilization_pct.v # 0
    THEN Frac(n.system_resources.v.cpu_utilization_pct.v, 1) ELSE Zero

RECURSIVE total_vcpus(_)
total_vcpus(nodes) ==
    IF nodes = <<>> THEN 0
    ELSE (IF Head(nodes).system_resources.some
          THEN Head(nodes).system_resources.v.cpu_cores ELSE 0) + total_vcpus(Tail(nodes))

\* result["current_sizing"] and the averages of "Calculate utilization"
current_sizing(req) ==
    LET nodes == req.nodes
    IN  [node_count |-> Len(nodes),
         vcpus_per_node |-> Reduce(total_vcpus(nodes), Len(nodes)),
         avg_connection_util |->
             FracDiv(SumFrac([i \in 1..Len(nodes) |-> sizing_connection_util(nodes[i])],
                             Zero), Len(nodes)),
         avg_cpu_util |->
             FracDiv(SumFrac([i \in 1..Len(nodes) |-> sizing_cpu_util(nodes[i])], Zero),
                     Len(nodes))]

Option(option, node_count, risk_level, dc_failure_behavior) ==
    [option |-> option, node_count |-> node_count, risk_level |-> risk_level,
     dc_failure_behavior |-> dc_failure_behavior]

reduced_from_five_nodes(req) == req.topology_type = "galera" /\ Len(req.nodes) >= 5

\* "For Galera with 6 nodes, suggest alternatives"
offers_reduced_options(req) == req.topology_type = "galera" /\ Len(req.nodes) >= 6

\* result["rightsizing_options"], given the current sizing
rightsizing_options(req, sizing) ==
    <<Option("current", Len(req.nodes), "low", "")>>
    \o (IF offers_reduced_options(req)
        THEN <<Option("reduced_5_node_with_arbitrator", 5, "low",
                      "Cluster continues with 3/5 nodes (quorum maintained)"),
               Option("reduced_4_node_WARNING", 4, "CRITICAL",
                      "CLUSTER FREEZES - no reads or writes possible"),
               Option("minimum_3_node_single_dc", 3, "high",
                      "Complete outage if DC fails")>>
        ELSE <<>>)
    \o (IF /\ LTu(sizing.avg_connection_util, 30)
           /\ sizing.avg_cpu_util.n = 0 \/ LTu(sizing.avg_cpu_util, 30)
           /\ GEu(sizing.vcpus_per_node, 8)
        THEN <<Option("smaller_nodes", Len(req.nodes), "medium", "")>>
        ELSE <<>>)

\* result["cost_impact"]
cost_impact(sizing) ==
    IF LTu(sizing.avg_connection_util, 25) THEN "over-provisioned"
    ELSE IF LTu(sizing.avg_connection_util, 50) THEN "good headroom"
    ELSE "well-utilized"

-----------------------------------------------------------------------------
(* Specification SpecSizing: one call of SizingAnalyzer.analyze *)

MaxClusterNodes == 6

\* a node that uses a tenth of its connections
IdleStatus ==
    StatusOf(<<Num(1), Num(10)>>, <<Num(0), Num(100)>>, <<Missing, NoneInt, Missing>>,
             <<Num(500), Num(400), Num(10), Num(60), Num(100)>>)

ResourceBodies ==
    {None,
     Some(ResourcesBody(8, 32, 500, NoneInt, "ssd")),
     Some(ResourcesBody(8, 32, 500, NoneInt, "hdd")),
     Some(ResourcesBody(4, 32, 500, SomeInt(20), "")),
     Some(ResourcesBody(8, 16, 520, NoneInt, "ssd")),
     Some(ResourcesBody(8, 32, 520, NoneInt, "ssd")),
     Some(ResourcesBody(8, 32, 1000, SomeInt(90), ""))}

\* <<load, system_resources of the body>>
SizingCases ==
    {<<"busy", b>> : b \in ResourceBodies}
    \cup {<<"idle", Some(ResourcesBody(8, 32, 500, NoneInt, "ssd"))>>}

ClusterCases ==
    {<<"busy", Some(ResourcesBody(8, 32, 500, NoneInt, "ssd"))>>,
     <<"idle", Some(ResourcesBody(8, 32, 500, NoneInt, "ssd"))>>}

SizingNode(role, c) ==
    LET n == NodeData(0, role, IF c[1] = "idle" THEN IdleStatus ELSE BusyStatus,
                      BusyVariables, None, None, None, BusyUptime)
    IN  IF c[2].some THEN WithResources(n, parse_system_resources(c[2].v)) ELSE n

\* the request as validated, and the system_resources objects as sent
SizingRequest(topology, role, cases) ==
    ClusterReviewRequest(topology,
                         Numbered([i \in DOMAIN cases |-> SizingNode(role, cases[i])]))
    @@ [body |-> [i \in DOMAIN cases |-> cases[i][2]]]

SizingRequests ==
    {SizingRequest(t[1], t[2], cases) :
        t \in {<<"galera", "galera_node">>, <<"master_replica", "replica">>},
        cases \in SeqsUpTo(SizingCases, MaxNodes)
                  \cup SeqsUpTo(ClusterCases, MaxClusterNodes)}

SizingStep(at, result, to) ==
    /\ review_pc = at
    /\ response' = response @@ result
    /\ review_pc' = to
    /\ UNCHANGED <<thVars, nodeVars, request, detect, results, callVars, logVars>>

SizingCurrent ==
    SizingStep("sizing", [current_sizing |-> current_sizing(request)], "consistency")

SizingConsistency ==
    SizingStep("consistency", [resource_consistency |-> resource_consistency(request)],
               "options")

SizingOptions ==
    SizingStep("options",
               [rightsizing_options |-> rightsizing_options(request, response.current_sizing),
                cost_impact |-> cost_impact(response.current_sizing)],
               "sized")

InitSizing ==
    /\ Construct({AbsentFile})
    /\ request \in SizingRequests
    /\ response = <<>>
    /\ review_pc = "sizing"
    /\ detect = <<>> /\ results = <<>>
    /\ IdleNode /\ IdleCall /\ IdleLog

NextSizing ==
    \/ SizingCurrent
    \/ SizingConsistency
    \/ SizingOptions

SpecSizing == InitSizing /\ [][NextSizing]_vars

-----------------------------------------------------------------------------
(* Claims about the sizing analyzer *)

Sized == review_pc = "sized"

AllCarryResources == \A i \in DOMAIN request.body : request.body[i].some

SameCapacity ==
    \A i, j \in DOMAIN request.body :
        /\ request.body[i].v.cpu_cores = request.body[j].v.cpu_cores
        /\ request.body[i].v.ram_gb = request.body[j].v.ram_gb
        /\ request.body[i].v.disk_total_gb = request.body[j].v.disk_total_gb

SentDiskType(i) == Get(request.body[i].v, "disk_type", "")

\* every node sends a disk_type, node i a different one than all the others,
\* which agree with each other
OneDiskTypeDiffers ==
    /\ Len(request.body) >= 2
    /\ \A i \in DOMAIN request.body : SentDiskType(i) # ""
    /\ \E i \in DOMAIN request.body :
          \A j, k \in DOMAIN request.body \ {i} :
              SentDiskType(j) = SentDiskType(k) /\ SentDiskType(j) # SentDiskType(i)

\* C11: a sized request whose nodes all carry resources of identical CPU, RAM
\* and disk capacity, and in which exactly one node's disk_type differs from
\* the others, has is_consistent = False and exactly one inconsistency entry,
\* of severity critical
C11_DiskTypeDifferenceCritical ==
    (Sized /\ AllCarryResources /\ SameCapacity /\ OneDiskTypeDiffers)
        => /\ ~response.resource_consistency.is_consistent
           /\ Len(response.resource_consistency.inconsistencies) = 1
           /\ response.resource_consistency.inconsistencies[1].severity = "critical"

\* C12: when two or more nodes, each with a resource record, have the same
\* CPU core count, RAM and disk capacity, resource_consistency.is_consistent
\* is True and the inconsistencies list is empty
C12_IdenticalResourcesConsistent ==
    (Sized /\ Len(request.nodes) >= 2 /\ AllCarryResources /\ SameCapacity)
        => /\ response.resource_consistency.is_consistent
           /\ response.resource_consistency.inconsistencies = <<>>

\* three identical nodes whose resources were compared
C12_Witness ==
    /\ Sized /\ Len(request.nodes) = 3 /\ AllCarryResources /\ SameCapacity
    /\ response.resource_consistency.compared
    /\ response.resource_consistency.is_consistent

OptionNames ==
    {response.rightsizing_options[i].option : i \in DOMAIN response.rightsizing_options}

ReducedInOrder ==
    \E i, j \in DOMAIN response.rightsizing_options :
        /\ i < j
        /\ response.rightsizing_options[i].option = "reduced_5_node_with_arbitrator"
        /\ response.rightsizing_options[i].node_count = 5
        /\ response.rightsizing_options[i].risk_level = "low"
        /\ response.rightsizing_options[j].option = "reduced_4_node_WARNING"
        /\ response.rightsizing_options[j].node_count = 4
        /\ response.rightsizing_options[j].risk_level = "CRITICAL"
        /\ response.rightsizing_options[j].dc_failure_behavior
               = "CLUSTER FREEZES - no reads or writes possible"

\* C15: for a Galera request of 6 or more nodes the rightsizing options hold
\* the 5-node arbitrator option (risk low) and after it the 4-node option
\* (risk CRITICAL, cluster-freeze warning); for another topology or fewer
\* nodes neither reduced option appears
C15_ReducedOptionsForLargeGalera ==
    Sized =>
        IF request.topology_type = "galera" /\ Len(request.nodes) >= 6
        THEN ReducedInOrder
        ELSE OptionNames \cap {"reduced_5_node_with_arbitrator", "reduced_4_node_WARNING"}
                 = {}

\* a Galera cluster of six nodes that is offered the reduced options
C15_Witness ==
    /\ Sized /\ request.topology_type = "galera" /\ Len(request.nodes) = 6
    /\ ReducedInOrder

-----------------------------------------------------------------------------
(* MariaDBLogAnalyzer.analyze_log_content *)

\* a log line: its text, whether line.strip() is empty, the names of the
\* PATTERNS entries whose search succeeds on it, the upper-case words and the
\* state-change test of _check_galera_events, and what _extract_timestamp finds
LogLine(text, blank, matches, upper_has, state_change, timestamp) ==
    [text |-> text, blank |-> blank, matches |-> matches, upper_has |-> upper_has,
     state_change |-> state_change, timestamp |-> timestamp]

Buckets ==
    {"sst_events", "ist_events", "flow_control_events", "connection_errors", "state_changes",
     "disk_issues", "inconsistency_events", "innodb_buffer_issues", "innodb_oom_events",
     "innodb_corruption_events", "crash_events", "startup_events",
     "unexpected_shutdown_events", "oom_killer_events", "replication_errors",
     "binlog_errors", "gtid_errors", "slave_stopped_events", "max_connection_errors",
     "connection_refused_events", "host_blocked_events", "ssl_errors", "deadlock_events",
     "lock_wait_events", "long_semaphore_events"}

\* LogSummary()
LogSummary ==
    [total_lines |-> 0, error_count |-> 0, warning_count |-> 0, critical_events |-> <<>>,
     buckets |-> [b \in Buckets |-> <<>>]]

\* {"timestamp": timestamp, "message": line[:200]}; the lines are shorter than
\* 200 characters
Event(line) == [timestamp |-> line.timestamp, message |-> line.text]

\* {**event, "type": type}
Typed(event, type) == event @@ [type |-> type]

\* one "if self.PATTERNS[...].search(line)" of _categorize_error: the patterns
\* of its condition, the bucket it appends to and the type of its
\* critical-events entry ("" when it adds none)
ErrorCategory(patterns, bucket, type) == [patterns |-> patterns, bucket |-> bucket, type |-> type]

ErrorCategories ==
    <<ErrorCategory({"disk_full"}, "disk_issues", "disk_full"),
      ErrorCategory({"disk_io_error"}, "disk_issues", "disk_io_error"),
      ErrorCategory({"inconsistent"}, "inconsistency_events", "inconsistency"),
      ErrorCategory({"connection_abort"}, "connection_errors", ""),
      ErrorCategory({"innodb_buffer_warning", "innodb_oom"}, "innodb_buffer_issues",
                    "innodb_memory"),
      ErrorCategory({"innodb_oom"}, "innodb_oom_events", "innodb_oom"),
      ErrorCategory({"innodb_corruption"}, "innodb_corruption_events", "innodb_corruption"),
      ErrorCategory({"crash"}, "crash_events", "crash"),
      ErrorCategory({"oom_killer"}, "oom_killer_events", "oom_killer"),
      ErrorCategory({"replication_error"}, "replication_errors", "replication_error"),
      ErrorCategory({"binlog_error"}, "binlog_errors", "binlog_error"),
      ErrorCategory({"gtid_error"}, "gtid_errors", ""),
      ErrorCategory({"slave_stopped"}, "slave_stopped_events", ""),
      ErrorCategory({"max_connections"}, "max_connection_errors", "max_connections"),
      ErrorCategory({"connection_refused"}, "connection_refused_events", ""),
      ErrorCategory({"host_blocked"}, "host_blocked_events", "host_blocked"),
      ErrorCategory({"ssl_error"}, "ssl_errors", ""),
      ErrorCategory({"deadlock"}, "deadlock_events", ""),
      ErrorCategory({"lock_wait"}, "lock_wait_events", ""),
      ErrorCategory({"long_semaphore"}, "long_semaphore_events", "long_semaphore")>>

Matches(line, category) == line.matches \cap category.patterns # {}

\* the categories an elif chain would record: the first matching one only
first_category_only(line) ==
    {i \in DOMAIN ErrorCategories :
        /\ Matches(line, ErrorCategories[i])
        /\ \A j \in 1..(i - 1) : ~Matches(line, ErrorCategories[j])}

\* the categories _categorize_error records for a line: each "if" is tested
\* independently of the others
categories_recorded(line) ==
    {i \in DOMAIN ErrorCategories : Matches(line, ErrorCategories[i])}

record(summary, event, category) ==
    [summary EXCEPT
        !.buckets[category.bucket] = Append(@, event),
        !.critical_events = IF category.type = "" THEN @
                            ELSE Append(@, Typed(event, category.type))]

RECURSIVE categorize_from(_, _, _, _)
\* the "if"s in their order (the second test never holds: it has the summary
\* evaluated at each of them)
categorize_from(summary, line, recorded, i) ==
    IF i > Len(ErrorCategories) \/ summary.total_lines < 0 THEN summary
    ELSE categorize_from(IF i \in recorded THEN record(summary, Event(line), ErrorCategories[i])
                         ELSE summary,
                         line, recorded, i + 1)

\* _categorize_error
categorize_error(line, summary) ==
    categorize_from(summary, line, categories_recorded(line), 1)

\* the buckets _check_galera_events appends the plain event to
galera_buckets(line) ==
    {b \in Buckets :
        \/ b = "sst_events" /\ "sst" \in line.matches /\ "SST" \in line.upper_has
        \/ b = "ist_events" /\ "ist" \in line.matches /\ "IST" \in line.upper_has
        \/ b = "flow_control_events" /\ "flow_control" \in line.matches
        \/ b = "state_changes" /\ line.state_change
        \/ b = "startup_events" /\ "startup" \in line.matches
        \/ b = "unexpected_shutdown_events"
              /\ "unexpected_shutdown" \in line.matches /\ "error" \in line.matches}

\* _check_galera_events
check_galera_events(line, summary) ==
    [summary EXCEPT
        !.buckets = [b \in Buckets |->
            LET plain == IF b \in galera_buckets(line) THEN Append(@[b], Event(line))
                         ELSE @[b]
            IN  IF b = "crash_events" /\ "innodb_recovery" \in line.matches
                THEN Append(plain, Typed(Event(line), "recovery_after_crash"))
                ELSE plain]]

count_error(line, summary) ==
    IF "error" \in line.matches
    THEN categorize_error(line, [summary EXCEPT !.error_count = @ + 1])
    ELSE summary

count_warning(line, summary) ==
    IF "warning" \in line.matches THEN [summary EXCEPT !.warning_count = @ + 1]
    ELSE summary

\* one iteration of "for line in lines"
classify_line(line, summary) ==
    IF line.blank THEN summary
    ELSE check_galera_events(line, count_warning(line, count_error(line, summary)))

\* one "if" of _generate_findings: the bucket it reads, the length the bucket
\* must exceed, the Finding's severity and title, and the priority of the
\* Recommendation appended with it (0 when there is none)
FindingRule(bucket, over, severity, title, priority, recommendation) ==
    [bucket |-> bucket, over |-> over, severity |-> severity, title |-> title,
     priority |-> priority, recommendation |-> recommendation]

FindingRules ==
    <<FindingRule("disk_issues", 0, "critical", "Disk space issues detected", 1,
                  "Address disk space issues immediately"),
      FindingRule("innodb_buffer_issues", 0, "critical", "InnoDB buffer pool issues", 1,
                  "Review InnoDB buffer pool configuration"),
      FindingRule("innodb_oom_events", 0, "critical", "InnoDB out-of-memory events", 0, ""),
      FindingRule("innodb_corruption_events", 0, "critical", "InnoDB corruption detected", 1,
                  "Investigate InnoDB corruption immediately"),
      FindingRule("crash_events", 0, "critical", "Crash/recovery events detected", 1,
                  "Investigate MariaDB crashes"),
      FindingRule("oom_killer_events", 0, "critical", "OOM killer events detected", 1,
                  "Address memory exhaustion"),
      FindingRule("startup_events", 5, "warning", "Frequent restarts detected", 0, ""),
      FindingRule("replication_errors", 0, "critical", "Replication errors", 1,
                  "Fix replication errors"),
      FindingRule("binlog_errors", 0, "critical", "Binary log errors", 0, ""),
      FindingRule("gtid_errors", 0, "warning", "GTID errors", 0, ""),
      FindingRule("slave_stopped_events", 0, "warning", "Slave stopped events", 0, ""),
      FindingRule("max_connection_errors", 0, "critical", "Max connections exceeded", 1,
                  "Increase max_connections or implement pooling"),
      FindingRule("host_blocked_events", 0, "critical", "Hosts blocked", 2,
                  "Investigate blocked hosts"),
      FindingRule("ssl_errors", 0, "warning", "SSL/TLS errors", 0, ""),
      FindingRule("connection_errors", 100, "warning", "High connection abort rate", 0, ""),
      FindingRule("deadlock_events", 0, "warning", "Deadlocks detected", 3,
                  "Investigate deadlocks"),
      FindingRule("lock_wait_events", 0, "warning", "Lock wait timeouts", 0, ""),
      FindingRule("long_semaphore_events", 0, "warning", "Long semaphore waits", 0, ""),
      FindingRule("inconsistency_events", 0, "critical", "Galera inconsistency detected", 0, ""),
      FindingRule("sst_events", 3, "warning", "Frequent SST events", 2,
                  "Enable gcache to allow IST instead of SST"),
      FindingRule("flow_control_events", 10, "warning", "Flow control activity", 0, "")>>

Applies(rule, summary) == Len(summary.buckets[rule.bucket]) > rule.over

\* the Findings of _generate_findings, the log summary last
log_findings(summary) ==
    [i \in 1..Len(SelectSeq(FindingRules, LAMBDA r : Applies(r, summary))) |->
        LET r == SelectSeq(FindingRules, LAMBDA q : Applies(q, summary))[i]
        IN  [severity |-> r.severity, title |-> r.title]]
    \o <<[severity |-> "info", title |-> "Log summary"]>>

\* the Recommendations of _generate_findings
log_recommendations(summary) ==
    [i \in 1..Len(SelectSeq(FindingRules,
                            LAMBDA r : Applies(r, summary) /\ r.priority # 0)) |->
        LET r == SelectSeq(FindingRules,
                           LAMBDA q : Applies(q, summary) /\ q.priority # 0)[i]
        IN  [priority |-> r.priority, title |-> r.recommendation]]

-----------------------------------------------------------------------------
(* Specification SpecErrorLog: MariaDBLogAnalyzer.analyze_log_content, line by
   line *)

MaxLogLines == 2

NoStamp == [some |-> FALSE, v |-> ""]
Stamp(t) == [some |-> TRUE, v |-> t]

\* lines of an error log, each with what the patterns of the analyzer find in it
ErrorLogLines ==
    {LogLine("", TRUE, {}, {}, FALSE, NoStamp),
     LogLine("   ", TRUE, {}, {}, FALSE, NoStamp),
     LogLine("2025-12-08 18:08:38 0 [ERROR] mysqld: The table 'orders' is full",
             FALSE, {"error", "disk_full"}, {}, FALSE, Stamp("2025-12-08 18:08:38")),
     LogLine("2025-12-08 18:08:39 0 [ERROR] InnoDB: write error: No space left on device",
             FALSE, {"error", "disk_full", "disk_io_error"}, {}, FALSE,
             Stamp("2025-12-08 18:08:39")),
     LogLine("2025-12-08 18:08:40 0 [Warning] Disk full (/tmp/#sql_1.MAI)",
             FALSE, {"warning", "disk_full"}, {}, FALSE, Stamp("2025-12-08 18:08:40")),
     LogLine("251208 12:45:08 [ERROR] WSREP: Inconsistent by consensus, disk full during state transfer",
             FALSE, {"error", "disk_full", "inconsistent", "sst", "ist"}, {"IST"}, FALSE,
             Stamp("251208 12:45:08")),
     LogLine("2025-12-08 18:08:42 0 [Note] WSREP: SST complete",
             FALSE, {"sst"}, {"SST"}, FALSE, Stamp("2025-12-08 18:08:42")),
     LogLine("2025-12-08 18:08:43 0 [ERROR] mysqld got signal 11 ; starting crash recovery",
             FALSE, {"error", "crash", "innodb_recovery"}, {}, FALSE,
             Stamp("2025-12-08 18:08:43")),
     LogLine("[ERROR] [Warning] disk full",
             FALSE, {"error", "warning", "disk_full"}, {}, FALSE, NoStamp),
     LogLine("2025-12-08 18:08:44 0 [ERROR] Host 'app1' is blocked because of many connection errors",
             FALSE, {"error", "connection_refused", "host_blocked"}, {}, FALSE,
             Stamp("2025-12-08 18:08:44")),
     LogLine("2025-12-08 18:08:45 0 [Note] mysqld: ready for connections",
             FALSE, {"startup"}, {}, FALSE, Stamp("2025-12-08 18:08:45"))}

\* log_content.split('\n') of a text: at least one line
ErrorLogs == SeqsUpTo(ErrorLogLines, MaxLogLines) \ {<<>>}

\* entry of analyze_log_content: the accumulators are rebound, the summary is
\* new and total_lines is the number of lines
StartErrorLog(lines) ==
    [pc |-> "scan", lines |-> lines, line |-> <<>>,
     summary |-> [LogSummary EXCEPT !.total_lines = Len(lines)],
     findings |-> <<>>, recommendations |-> <<>>, result |-> <<>>]

ClassifyLine ==
    /\ mariadb.pc = "scan"
    /\ mariadb.lines # <<>>
    /\ mariadb' = [mariadb EXCEPT !.lines = Tail(@), !.line = Head(mariadb.lines),
                                  !.summary = classify_line(Head(mariadb.lines), @)]
    /\ UNCHANGED <<thVars, slow, notLog>>

\* after the loop: _generate_findings and the returned dictionary
GenerateFindings ==
    /\ mariadb.pc = "scan"
    /\ mariadb.lines = <<>>
    /\ mariadb' = [mariadb EXCEPT
                      !.pc = "done",
                      !.findings = log_findings(mariadb.summary),
                      !.recommendations = log_recommendations(mariadb.summary),
                      !.result = [critical_issues |-> Len(mariadb.summary.critical_events),
                                  disk_issues |-> Len(mariadb.summary.buckets["disk_issues"]),
                                  sst_count |-> Len(mariadb.summary.buckets["sst_events"]),
                                  inconsistencies |->
                                      Len(mariadb.summary.buckets["inconsistency_events"])]]
    /\ UNCHANGED <<thVars, slow, notLog>>

InitErrorLog ==
    /\ Construct({AbsentFile})
    /\ \E lines \in ErrorLogs : mariadb = StartErrorLog(lines)
    /\ slow = <<>>
    /\ IdleNode /\ IdleReview /\ IdleCall

NextErrorLog ==
    \/ ClassifyLine
    \/ GenerateFindings

SpecErrorLog == InitErrorLog /\ [][NextErrorLog]_vars

\* the number of critical-events entries of a type
Tagged(summary, type) ==
    Cardinality({i \in DOMAIN summary.critical_events :
                    summary.critical_events[i].type = type})

Grown(bucket) == Len(mariadb'.summary.buckets[bucket]) - Len(mariadb.summary.buckets[bucket])

\* the line of this step matches the generic error pattern and the disk-full
\* pattern
ErrorAndDiskFull(line) == ~line.blank /\ {"error", "disk_full"} \subseteq line.matches

-----------------------------------------------------------------------------
(* ConfigAnalyzer *)

\* a Recommendation whose title names the host it is about
HostRecommendation(priority, category, title, hostname) ==
    Recommendation(priority, category, title) @@ [node |-> hostname]

\* the accumulators of one ConfigAnalyzer.analyze call
NewConfig == [raised |-> FALSE, findings |-> <<>>, recommendations |-> <<>>]

config_finding(acc, finding) == [acc EXCEPT !.findings = Append(@, finding)]
config_recommend(acc, rec) == [acc EXCEPT !.recommendations = Append(@, rec)]

\* str(value) == "<n>" for the literal of a whole number
StrIs(v, n) == v.t = "int" /\ v.n = n

\* "(buffer_pool_size / ram_bytes) * 100 < 50" for a whole number of GB: the
\* buffer pool is below half of ram_gb * 1024^3 bytes
buffer_pool_below_half(buffer_pool_size, ram_gb) == buffer_pool_size \div 536870912 < ram_gb

\* _analyze_innodb_config
analyze_innodb_config(acc, n) ==
    LET small == /\ n.system_resources.some
                 /\ n.system_resources.v.ram_gb # 0
                 /\ buffer_pool_below_half(get_variable_int(n, "innodb_buffer_pool_size", 0),
                                           n.system_resources.v.ram_gb)
        flush == StrIs(get_variable(n, "innodb_flush_log_at_trx_commit", Num(1)), 0)
        autoinc == ~StrIs(get_variable(n, "innodb_autoinc_lock_mode", Num(1)), 2)
    IN  IF acc.raised THEN acc
        ELSE [acc EXCEPT
                !.recommendations =
                    @ \o (IF small
                          THEN <<HostRecommendation(3, "performance", "Increase buffer pool",
                                                    n.hostname)>>
                          ELSE <<>>),
                !.findings =
                    @ \o (IF flush
                          THEN <<Finding("warning", "configuration", "Durability risk",
                                         n.hostname)>>
                          ELSE <<>>)
                      \o (IF autoinc
                          THEN <<Finding("warning", "configuration",
                                         "Auto-increment lock mode", n.hostname)>>
                          ELSE <<>>)]

\* the utilization branch of _analyze_connection_config, for max_used > 0 and
\* max_connections # 0
connection_utilization_config(acc, n, max_connections, utilization) ==
    IF GTu(utilization, 80)
    THEN config_finding(acc, Finding("warning", "capacity", "High connection utilization",
                                     n.hostname))
    ELSE IF LTu(utilization, 20) /\ max_connections > 500
    THEN config_recommend(acc, HostRecommendation(4, "configuration",
                                                  "Reduce max_connections", n.hostname))
    ELSE acc

\* "wait_timeout" of _analyze_connection_config
wait_timeout_config(acc, n) ==
    IF acc.raised THEN acc
    ELSE IF get_variable_int(n, "wait_timeout", 28800) > 3600
    THEN config_recommend(acc, HostRecommendation(4, "configuration", "Review wait_timeout",
                                                  n.hostname))
    ELSE acc

\* _analyze_connection_config: (max_used / max_connections) * 100 raises
\* ZeroDivisionError when max_connections is 0
analyze_connection_config(acc, n) ==
    LET max_connections == get_variable_int(n, "max_connections", 151)
        max_used == get_status_int(n, "Max_used_connections", 0)
    IN  IF acc.raised THEN acc
        ELSE IF max_used > 0 /\ max_connections = 0 THEN [acc EXCEPT !.raised = TRUE]
        ELSE IF max_used > 0
        THEN wait_timeout_config(
                 connection_utilization_config(acc, n, max_connections,
                                               Frac(max_used * 100, max_connections)), n)
        ELSE wait_timeout_config(acc, n)

\* NodeData.get_status_float, in thousandths
get_status_float(n, key, default) ==
    LET v == Get(n.global_status, key, Num(default))
    IN  IF FloatOk(v) THEN FloatMilli(v) ELSE 1000 * default

\* _analyze_galera_config
analyze_galera_config(acc, n) ==
    LET slave_threads == get_variable_int(n, "wsrep_slave_threads", 1)
        cert_deps_distance == get_status_float(n, "wsrep_cert_deps_distance", 0)
        sync_wait == ~StrIs(get_variable(n, "wsrep_sync_wait", Num(0)), 0)
        binlog == Upper(Str(get_variable(n, "binlog_format", Txt("STATEMENT")))) # "ROW"
    IN  IF acc.raised THEN acc
        ELSE [acc EXCEPT
                !.recommendations =
                    @ \o (IF cert_deps_distance > 0 /\ 1000 * slave_threads < cert_deps_distance
                          THEN <<HostRecommendation(3, "performance",
                                     "Increase wsrep_slave_threads", n.hostname)>>
                          ELSE <<>>),
                !.findings =
                    @ \o (IF sync_wait
                          THEN <<Finding("info", "configuration", "Causal reads enabled",
                                         n.hostname)>>
                          ELSE <<>>)
                      \o (IF binlog
                          THEN <<Finding("warning", "configuration", "Wrong binlog format",
                                         n.hostname)>>
                          ELSE <<>>)]

\* what _analyze_gcache_config finds in str(provider_options): whether the text
\* contains "gcache.size" and "gcache.keep_pages_size", and what the two
\* regular expressions capture ("" when they do not match)
ProviderOptions(has_size, size, has_keep_pages, keep_pages) ==
    [has_size |-> has_size, size |-> size, has_keep_pages |-> has_keep_pages,
     keep_pages |-> keep_pages]

provider_options_of(v) ==
    CASE v = Txt("gcache.size=1G") -> ProviderOptions(TRUE, "1G", FALSE, "")
      [] v = Txt("gcache.size = 0; gcache.keep_pages_size=128M")
             -> ProviderOptions(TRUE, "0", TRUE, "128M")
      [] v = Txt("gcache.keep_pages_size=128M") -> ProviderOptions(FALSE, "", TRUE, "128M")
      [] v = Txt("gcache.size=big") -> ProviderOptions(TRUE, "", FALSE, "")
      [] OTHER -> ProviderOptions(FALSE, "", FALSE, "")

\* the findings and the recommendation of _analyze_gcache_config, given the
\* two sizes it has extracted
gcache_findings(acc, n, gcache_size, gcache_keep_pages) ==
    [acc EXCEPT
        !.recommendations =
            @ \o (IF gcache_size = "0"
                  THEN <<HostRecommendation(2, "availability", "Enable gcache", n.hostname)>>
                  ELSE <<>>),
        !.findings =
            @ \o (IF gcache_size = "0"
                  THEN <<Finding("warning", "configuration", "gcache disabled", n.hostname)>>
                  ELSE <<>>)
              \o (IF gcache_keep_pages # "0"
                  THEN <<Finding("info", "configuration", "gcache.keep_pages_size",
                                 n.hostname)>>
                  ELSE <<>>)]

\* _analyze_gcache_config: "import re" is executed only in the gcache.size
\* branch, so the search of the keep_pages_size branch raises UnboundLocalError
\* when that branch was not taken
analyze_gcache_config(acc, n) ==
    LET provider_options == get_variable(n, "wsrep_provider_options", Txt(""))
        o == provider_options_of(provider_options)
        given == RawTruthy(provider_options)
    IN  IF acc.raised THEN acc
        ELSE IF given /\ ~o.has_size /\ o.has_keep_pages THEN [acc EXCEPT !.raised = TRUE]
        ELSE gcache_findings(acc, n,
                 IF given /\ o.has_size /\ o.size # "" THEN o.size ELSE "0",
                 IF given /\ o.has_keep_pages /\ o.keep_pages # "" THEN o.keep_pages ELSE "0")

\* one iteration of "for node in request.nodes" of ConfigAnalyzer.analyze
config_analyze_node(acc, n, topology_type) ==
    IF topology_type = "galera"
    THEN analyze_gcache_config(
             analyze_galera_config(
                 analyze_connection_config(analyze_innodb_config(acc, n), n), n), n)
    ELSE analyze_connection_config(analyze_innodb_config(acc, n), n)

RECURSIVE config_analyze_nodes(_, _, _)
config_analyze_nodes(acc, nodes, topology_type) ==
    IF nodes = <<>> THEN acc
    ELSE config_analyze_nodes(config_analyze_node(acc, Head(nodes), topology_type),
                              Tail(nodes), topology_type)

\* ConfigAnalyzer.analyze
config_analyze(req) == config_analyze_nodes(NewConfig, req.nodes, req.topology_type)

-----------------------------------------------------------------------------
(* ReviewService.review *)

\* the analyzer review selects for the topology type
analyzer_of(topology_type) ==
    CASE topology_type = "standalone" -> "standalone"
      [] topology_type = "master_replica" -> "replication"
      [] topology_type = "semi_sync" -> "semi_sync"
      [] topology_type = "galera" -> "galera"

\* analyzer.analyze(request)
analyzer_analyze(k, th, selfst, req) ==
    CASE k = "standalone" -> standalone_analyze(th, selfst, req)
      [] k = "replication" -> replication_analyze(th, selfst, req)
      [] k = "semi_sync" -> semi_sync_analyze(th, selfst, req)
      [] k = "galera" -> galera_analyze(th, selfst, req)

\* the dictionary MaxScaleAnalyzer.analyze returns
MaxScaleResult(findings, recommendations) ==
    [findings |-> findings, recommendations |-> recommendations,
     healthy |-> maxscale_health(findings).healthy,
     status |-> maxscale_health(findings).status]

maxscale_analyze(maxscale, req) ==
    MaxScaleResult(maxscale_findings(maxscale, Len(req.nodes)),
                   maxscale_recommendations(maxscale))
    @@ [load_distribution |-> calculate_load_distribution(maxscale)]

\* "Add MaxScale analysis if present"
merge_maxscale(resp, result) ==
    [resp EXCEPT
        !.findings = @ \o result.findings,
        !.recommendations = @ \o result.recommendations,
        !.key_insights = @ @@ [maxscale_healthy |-> result.healthy],
        !.overall_status = IF result.status = "critical" THEN "critical" ELSE @]

\* "Add configuration analysis"
merge_config(resp, result) ==
    [resp EXCEPT !.findings = @ \o result.findings,
                 !.recommendations = @ \o result.recommendations]

\* the key insights taken from TopologyComparisonAnalyzer.analyze: the
\* semi-sync score starts at 75 and is only raised, so semi_sync_suitable
\* (score >= 60) is always True; the recommendation text is written for Galera
\* requests only
topology_insights(req) ==
    [semi_sync_suitable |-> TRUE,
     topology_recommendation |-> IF req.topology_type = "galera"
                                 THEN "KEEP GALERA if / CONSIDER SEMI-SYNC if" ELSE ""]

\* the key insights taken from SizingAnalyzer.analyze
sizing_insights(req, sizing) ==
    [current_sizing |-> sizing, rightsizing_options |-> rightsizing_options(req, sizing),
     cost_impact |-> cost_impact(sizing)]

RECURSIVE insert_before_ties(_, _)
\* insertion that places an element before the elements of its own priority
insert_before_ties(sorted, r) ==
    IF sorted = <<>> THEN <<r>>
    ELSE IF Head(sorted).priority < r.priority
    THEN <<Head(sorted)>> \o insert_before_ties(Tail(sorted), r)
    ELSE <<r>> \o sorted

RECURSIVE insert_by_priority(_, _)
\* insertion of r into a list in priority order, after every element whose
\* priority is not greater
insert_by_priority(sorted, r) ==
    IF sorted = <<>> THEN <<r>>
    ELSE IF Head(sorted).priority <= r.priority
    THEN <<Head(sorted)>> \o insert_by_priority(Tail(sorted), r)
    ELSE <<r>> \o sorted

RECURSIVE sort_by_priority(_)
\* list.sort(key=lambda r: r.priority): ascending and stable
sort_by_priority(recs) ==
    IF recs = <<>> THEN <<>>
    ELSE insert_by_priority(sort_by_priority(SubSeq(recs, 1, Len(recs) - 1)),
                            recs[Len(recs)])

\* "Add summary key insights"
summary_insights(resp) ==
    [resp EXCEPT !.key_insights =
        @ @@ [total_findings |-> Len(resp.findings),
              critical_findings |-> Len(SelectSeq(resp.findings,
                                                  LAMBDA f : f.severity = "critical")),
              total_recommendations |-> Len(resp.recommendations)]]

-----------------------------------------------------------------------------
(* Specification SpecService: one ReviewService.review call, step by step *)

MaxServiceNodes == 2

\* <<innodb_buffer_pool_size, ram_gb (0: no system_resources), max_connections,
\*   Max_used_connections, wait_timeout, wsrep_provider_options,
\*   wsrep_cert_deps_distance>>
ConfigCases ==
    {<<Missing, 0, Num(10), Num(4), Missing, Missing, Missing>>,
     <<Num(134217728), 2, Num(1000), Num(4), Num(600), Txt("gcache.size=1G"), Num(4)>>,
     <<Num(1073741824), 2, Num(10), Num(4), Num(600), Txt("gcache.size=big"), Missing>>,
     <<Missing, 0, Num(0), Num(4), Missing, Missing, Missing>>,
     <<Missing, 0, Num(10), Num(4), Num(600),
       Txt("gcache.keep_pages_size=128M"), Missing>>}

ServiceRoles ==
    {<<"standalone", None>>, <<"galera_node", None>>, <<"master", None>>,
     <<"replica", Slave(Txt("Yes"), Txt("Yes"), Num(0))>>,
     <<"replica", Slave(Txt("No"), Txt("Yes"), Num(0))>>}

ServiceNode(r, c) ==
    LET status == StatusOf(<<c[4], c[3]>>, <<Num(0), Num(100)>>, <<Missing, NoneInt, Missing>>,
                           <<Num(500), Num(400), Num(10), Num(60), Num(100)>>)
                  @@ Entry("wsrep_cert_deps_distance", c[7])
                  @@ (IF r[1] = "galera_node"
                      THEN Entry("wsrep_ready", Txt("ON"))
                           @@ Entry("wsrep_cluster_status", Txt("Primary"))
                           @@ Entry("wsrep_local_state_comment", Txt("Synced"))
                           @@ Entry("wsrep_cluster_size", Num(3))
                      ELSE <<>>)
        variables == Entry("max_connections", c[3])
                     @@ Entry("innodb_buffer_pool_size", c[1])
                     @@ Entry("wait_timeout", c[5])
                     @@ Entry("wsrep_provider_options", c[6])
        n == NodeData(0, r[1], status, variables, r[2], None, None, BusyUptime)
    IN  IF c[2] = 0 THEN n
        ELSE WithResources(n, SystemResources(4, c[2], 100, NoneInt, NoneInt, NoneInt))

ServiceTopologies ==
    {<<"standalone", {"standalone"}>>, <<"galera", {"galera_node"}>>,
     <<"master_replica", {"master", "replica"}>>, <<"semi_sync", {"master", "replica"}>>}

ServiceMaxScales ==
    {NoMaxScale,
     Some([MaxScaleConfig(<<MaxScaleServer(1, Running, NoneInt)>>) EXCEPT !.enabled = FALSE]),
     Some(MaxScaleConfig(<<MaxScaleServer(1, Running, NoneInt)>>)),
     Some(MaxScaleConfig(<<MaxScaleServer(1, Running, SomeInt(0)),
                           MaxScaleServer(2, Some(<<"Down">>), NoneInt)>>))}

ServiceNodes(roles) ==
    {ServiceNode(r, c) : r \in {q \in ServiceRoles : q[1] \in roles}, c \in ConfigCases}

ServiceRequests ==
    UNION {{[ClusterReviewRequest(t[1], Numbered(nodes)) EXCEPT !.maxscale = m] :
               m \in ServiceMaxScales,
               nodes \in SeqsUpTo(ServiceNodes(t[2]), MaxServiceNodes)} :
           t \in ServiceTopologies}

NoResults == [maxscale |-> MaxScaleResult(<<>>, <<>>), config |-> NewConfig]

\* "response = analyzer.analyze(request)"; key_insights holds the entries that
\* review adds
ServiceAnalyzed(k, resp) ==
    /\ response' = IF resp.raised THEN resp ELSE resp @@ [key_insights |-> <<>>]
    /\ review_pc' = IF resp.raised THEN "raised" ELSE "maxscale"
    /\ self' = [self EXCEPT ![k] = IF resp.raised THEN NewSelf
                                   ELSE [findings |-> resp.findings,
                                         recommendations |-> resp.recommendations]]
    /\ UNCHANGED <<thVars, nodeVars, request, detect, results, thread, heap, refs, returned,
                   logVars>>

ServiceAnalyze ==
    /\ review_pc = "review"
    /\ ServiceAnalyzed(analyzer_of(request.topology_type),
                       analyzer_analyze(analyzer_of(request.topology_type), thresholds,
                                        self[analyzer_of(request.topology_type)], request))

ServiceMerged(result) ==
    /\ results' = [results EXCEPT !.maxscale = result]
    /\ response' = merge_maxscale(response, result)

\* "if request.maxscale and request.maxscale.enabled"
ServiceMaxScale ==
    /\ review_pc = "maxscale"
    /\ IF maxscale_present(request)
       THEN ServiceMerged(maxscale_analyze(request.maxscale.v, request))
       ELSE UNCHANGED <<results, response>>
    /\ review_pc' = "config"
    /\ UNCHANGED <<thVars, nodeVars, request, detect, callVars, logVars>>

ServiceConfigured(result) ==
    /\ results' = [results EXCEPT !.config = result]
    /\ response' = IF result.raised THEN RaisedResponse ELSE merge_config(response, result)
    /\ review_pc' = IF result.raised THEN "raised" ELSE "insights"

ServiceConfig ==
    /\ review_pc = "config"
    /\ ServiceConfigured(config_analyze(request))
    /\ UNCHANGED <<thVars, nodeVars, request, detect, callVars, logVars>>

\* the topology comparison and the sizing analysis, copied into key_insights
ServiceInsights ==
    /\ review_pc = "insights"
    /\ response' = [response EXCEPT !.key_insights =
                       @ @@ topology_insights(request)
                         @@ sizing_insights(request, current_sizing(request))]
    /\ review_pc' = "sort"
    /\ UNCHANGED <<thVars, nodeVars, request, detect, results, callVars, logVars>>

\* the sort, the summary insights and the return
ServiceSort ==
    /\ review_pc = "sort"
    /\ response' = summary_insights([response EXCEPT
                       !.recommendations = sort_by_priority(@)])
    /\ review_pc' = "done"
    /\ UNCHANGED <<thVars, nodeVars, request, detect, results, callVars, logVars>>

InitService ==
    /\ Construct({AbsentFile})
    /\ request \in ServiceRequests
    /\ response = NoResponse
    /\ review_pc = "review"
    /\ detect = <<>> /\ results = NoResults
    /\ self = [k \in Analyzers |-> NewSelf]
    /\ thread = <<>> /\ heap = <<>> /\ refs = <<>> /\ returned = <<>>
    /\ IdleNode /\ IdleLog

NextService ==
    \/ ServiceAnalyze
    \/ ServiceMaxScale
    \/ ServiceConfig
    \/ ServiceInsights
    \/ ServiceSort

SpecService == InitService /\ [][NextService]_vars

\* the recommendations of the topology analyzer, of the proxy analyzer and of
\* the configuration analyzer, in the order review merges them
MergedRecommendations ==
    self[analyzer_of(request.topology_type)].recommendations
    \o results.maxscale.recommendations \o results.config.recommendations

Occurrences(seq, e) == Cardinality({i \in DOMAIN seq : seq[i] = e})

WithPriority(seq, p) == SelectSeq(seq, LAMBDA r : r.priority = p)

Priorities == 1..5

\* C14: the recommendations of a returned review are in nondecreasing priority
\* order, hold every recommendation of the topology, proxy and configuration
\* analyzers exactly as often as the merge does, and keep the merge order
\* among recommendations of equal priority
C14_SortedStableMerge ==
    (review_pc = "done" /\ ~response.raised)
        => /\ \A i, j \in DOMAIN response.recommendations :
                 i < j => response.recommendations[i].priority
                            <= response.recommendations[j].priority
           /\ Len(response.recommendations) = Len(MergedRecommendations)
           /\ \A i \in DOMAIN MergedRecommendations :
                 Occurrences(response.recommendations, MergedRecommendations[i])
                     = Occurrences(MergedRecommendations, MergedRecommendations[i])
           /\ \A p \in Priorities :
                 WithPriority(response.recommendations, p)
                     = WithPriority(MergedRecommendations, p)

\* a returned review whose merge was out of order, with recommendations of all
\* three analyzers and two analyzers sharing a priority
C14_Witness ==
    /\ review_pc = "done" /\ ~response.raised
    /\ self[analyzer_of(request.topology_type)].recommendations # <<>>
    /\ results.maxscale.recommendations # <<>>
    /\ results.config.recommendations # <<>>
    /\ response.recommendations # MergedRecommendations
    /\ \E i \in DOMAIN results.maxscale.recommendations,
          j \in DOMAIN results.config.recommendations :
          results.maxscale.recommendations[i].priority
              = results.config.recommendations[j].priority

-----------------------------------------------------------------------------
(* Specification SpecLoad: one analyze_load call on a request *)

\* <<Max_used_connections, max_connections>>: 40%, exactly 90%, 91%, and
\* max_connections = 0 (utilization 0.0)
LoadConnCases ==
    {<<Num(4), Num(10)>>, <<Num(9), Num(10)>>, <<Num(91), Num(100)>>,
     <<Num(5), Num(0)>>}

\* <<Innodb_buffer_pool_reads, Innodb_buffer_pool_read_requests>>: hit ratio
\* 100%, exactly 90%, 89%
LoadHitCases ==
    {<<Num(0), Num(100)>>, <<Num(10), Num(100)>>, <<Num(11), Num(100)>>}

LoadNode(c, h) ==
    NodeData(0, "standalone",
             StatusOf(c, h, <<Missing, NoneInt, Missing>>,
                      <<Num(500), Num(400), Num(10), Num(60), Num(100)>>),
             VariablesOf(c), None, None, None, BusyUptime)

LoadRequests ==
    {ClusterReviewRequest("standalone", Numbered(nodes)) :
        nodes \in SeqsUpTo({LoadNode(c, h) : c \in LoadConnCases, h \in LoadHitCases},
                           MaxNodes)}

AnalyzeLoad ==
    /\ review_pc = "load"
    /\ response' = analyze_load(request)
    /\ review_pc' = "done"
    /\ UNCHANGED <<thVars, nodeVars, request, detect, results, callVars, logVars>>

InitLoad ==
    /\ Construct({AbsentFile})
    /\ request \in LoadRequests
    /\ response = <<>>
    /\ review_pc = "load"
    /\ detect = <<>> /\ results = <<>>
    /\ IdleNode /\ IdleCall /\ IdleLog

NextLoad == AnalyzeLoad

SpecLoad == InitLoad /\ [][NextLoad]_vars

LoadDone == review_pc = "done"

ConnectionsExceeded(n) == GT(calculate_connection_utilization(n), 900)

HitRatioLow(n) == LT(calculate_buffer_pool_hit_ratio(n), 900)

SomeNode(P(_)) == \E i \in 1..Len(request.nodes) : P(request.nodes[i])

\* C21: analyze_load returns can_handle_current_load = False exactly when some
\* node's connection utilization exceeds 0.9; a low hit ratio alone leaves it
\* True, and the hit-ratio check is still made on a node whose connection check
\* fired (the status of a request ending in such a node is warning)
C21_CanHandleIffConnections ==
    LoadDone =>
        /\ response.can_handle_current_load = ~SomeNode(ConnectionsExceeded)
        /\ (SomeNode(HitRatioLow) /\ ~SomeNode(ConnectionsExceeded))
              => response.can_handle_current_load
        /\ LET last == request.nodes[Len(request.nodes)]
           IN  (ConnectionsExceeded(last) /\ HitRatioLow(last))
                   => /\ ~response.can_handle_current_load
                      /\ response.status = "warning"

\* a finished call on two nodes: the first has only a low hit ratio, the second
\* exceeds 0.9 of its connections and has a low hit ratio too
C21_Witness ==
    /\ LoadDone /\ Len(request.nodes) = 2
    /\ HitRatioLow(request.nodes[1]) /\ ~ConnectionsExceeded(request.nodes[1])
    /\ ConnectionsExceeded(request.nodes[2]) /\ HitRatioLow(request.nodes[2])
    /\ ~response.can_handle_current_load

\* a finished call where only a low hit ratio occurs and the flag stays True
C21_HitRatioAlone ==
    /\ LoadDone /\ SomeNode(HitRatioLow) /\ ~SomeNode(ConnectionsExceeded)
    /\ response.can_handle_current_load

NodeLoadSeverity(n) ==
    IF ConnectionsExceeded(n) THEN "critical"
    ELSE IF HitRatioLow(n) THEN "warning" ELSE "info"

\* C29: the status of analyze_load is the most severe of the per-node
\* severities (critical over 0.9 of the connections, warning under a 0.90 hit
\* ratio, info otherwise)
C29_LoadStatusIsMaximum ==
    LoadDone =>
        /\ \A i \in 1..Len(request.nodes) :
              Rank(response.status) >= Rank(NodeLoadSeverity(request.nodes[i]))
        /\ \E i \in 1..Len(request.nodes) :
              response.status = NodeLoadSeverity(request.nodes[i])

-----------------------------------------------------------------------------
(* Specification SpecProxy: one MaxScaleAnalyzer.analyze call *)

MaxServers == 3

\* server states: a master, a replica, a running server without a role
ProxyStates == {Some(<<"Master", "Running">>), Some(<<"Slave", "Running">>),
                Some(<<"Running">>)}

\* routed-query counts: none, and shares of 30/70 and 38/62 between two servers
ProxyQueries == {0, 30, 38, 62, 70}

ProxyServers == {MaxScaleServer(0, st, SomeInt(q)) : st \in ProxyStates, q \in ProxyQueries}

ProxyNamed(servers) == [i \in DOMAIN servers |-> [servers[i] EXCEPT !.name = i]]

ProxyConfigs == {MaxScaleConfig(ProxyNamed(servers)) :
                    servers \in SeqsUpTo(ProxyServers, MaxServers)}

ProxyRequests ==
    {[ClusterReviewRequest("master_replica",
                           Numbered(<<ReplicationNode(<<"master", None>>)>>))
        EXCEPT !.maxscale = Some(m)] : m \in ProxyConfigs}

ProxyAnalyze ==
    /\ review_pc = "proxy"
    /\ response' = maxscale_analyze(request.maxscale.v, request)
    /\ review_pc' = "done"
    /\ UNCHANGED <<thVars, nodeVars, request, detect, results, callVars, logVars>>

InitProxy ==
    /\ Construct({AbsentFile})
    /\ request \in ProxyRequests
    /\ response = <<>>
    /\ review_pc = "proxy"
    /\ detect = <<>> /\ results = <<>>
    /\ IdleNode /\ IdleCall /\ IdleLog

NextProxy == ProxyAnalyze

SpecProxy == InitProxy /\ [][NextProxy]_vars

HasTitle(list, title) == \E i \in DOMAIN list : list[i].title = title

UnbalancedReported ==
    /\ \E i \in DOMAIN response.findings :
          /\ response.findings[i].title = "Unbalanced read distribution"
          /\ response.findings[i].severity = "warning"
    /\ HasTitle(response.recommendations, "Review load balancing configuration")

\* every server that enters the balance check is a replica
OnlyReplicasCounted ==
    LET servers == request.maxscale.v.servers
    IN  \A i \in DOMAIN servers :
            (queries_or_zero(servers[i]) # 0 /\ not_master(servers[i]))
                => StateHas(servers[i].state, "slave")

\* C22: when the query shares of the proxy's replica servers (the master
\* excluded) are more than 20 points apart, so that load_distribution.balanced
\* is False, the proxy result holds an "Unbalanced read distribution" warning
\* Finding and a rebalancing Recommendation
C22_UnbalancedImpliesFinding ==
    (review_pc = "done" /\ OnlyReplicasCounted /\ ~response.load_distribution.balanced)
        => UnbalancedReported

-----------------------------------------------------------------------------
(* Specification SpecConfig: one ConfigAnalyzer.analyze call *)

MaxConfigNodes == 2

\* <<max_connections, Max_used_connections>>: 10% of 500 and of 501, 0.4% of
\* 1000, 90% of 10 and of 1000, exactly 20% of 500, and no connection used
ConnectionCases ==
    {<<Num(500), Num(50)>>, <<Num(501), Num(50)>>, <<Num(1000), Num(4)>>,
     <<Num(10), Num(9)>>, <<Num(1000), Num(900)>>, <<Num(500), Num(100)>>,
     <<Num(10), Num(0)>>}

\* innodb_autoinc_lock_mode: absent, 1, 2
AutoincCases == {Missing, Num(1), Num(2)}

ConfigRole(topology_type) ==
    CASE topology_type = "standalone" -> "standalone"
      [] topology_type = "galera" -> "galera_node"
      [] OTHER -> "master"

ConfigNode(role, c, a) ==
    NodeData(0, role, Entry("Max_used_connections", c[2]),
             Entry("max_connections", c[1]) @@ Entry("innodb_autoinc_lock_mode", a)
                 @@ Entry("wait_timeout", Num(600)),
             None, None, None, BusyUptime)

TopologyTypes == {"standalone", "master_replica", "semi_sync", "galera"}

ConfigRequests ==
    UNION {{ClusterReviewRequest(t, Numbered(nodes)) :
               nodes \in SeqsUpTo({ConfigNode(ConfigRole(t), c, a) :
                                      c \in ConnectionCases, a \in AutoincCases},
                                  MaxConfigNodes)} : t \in TopologyTypes}

ConfigAnalyze ==
    /\ review_pc = "config"
    /\ response' = config_analyze(request)
    /\ review_pc' = "done"
    /\ UNCHANGED <<thVars, nodeVars, request, detect, results, callVars, logVars>>

InitConfig ==
    /\ Construct({AbsentFile})
    /\ request \in ConfigRequests
    /\ response = <<>>
    /\ review_pc = "config"
    /\ detect = <<>> /\ results = <<>>
    /\ IdleNode /\ IdleCall /\ IdleLog

NextConfig == ConfigAnalyze

SpecConfig == InitConfig /\ [][NextConfig]_vars

\* the result holds an entry with this title about this host
About(list, title, hostname) ==
    \E i \in DOMAIN list : list[i].title = title /\ list[i].node = hostname

\* C23: for a standalone, master_replica or semi_sync request the
\* configuration analyzer emits no "innodb_autoinc_lock_mode is not 2" warning
C23_AutoincWarningOnlyForGalera ==
    (review_pc = "done" /\ request.topology_type # "galera")
        => \A i \in DOMAIN request.nodes :
              ~About(response.findings, "Auto-increment lock mode",
                     request.nodes[i].hostname)

\* peak connection utilization of a node, in percent
PeakUtilization(n) ==
    Frac(get_status_int(n, "Max_used_connections", 0) * 100,
         get_variable_int(n, "max_connections", 151))

\* C24: a node with a peak utilization above zero and below 20% gets the
\* reduce-max_connections recommendation exactly when max_connections >= 500; a
\* node above 80% gets the capacity warning and no such recommendation
C24_ReduceFromFiveHundred ==
    review_pc = "done" =>
        \A i \in DOMAIN request.nodes :
            LET n == request.nodes[i]
                reduce == About(response.recommendations, "Reduce max_connections",
                                n.hostname)
            IN  /\ (get_status_int(n, "Max_used_connections", 0) > 0
                      /\ LTu(PeakUtilization(n), 20))
                       => (reduce <=> get_variable_int(n, "max_connections", 151) >= 500)
                /\ GTu(PeakUtilization(n), 80)
                       => /\ About(response.findings, "High connection utilization",
                                   n.hostname)
                          /\ ~reduce

-----------------------------------------------------------------------------
(* MaxScaleLogAnalyzer *)

\* a line of a MaxScale log with what the patterns of the analyzer find in it;
\* new_master: "new_master" in line.lower()
ProxyLogLine(text, blank, matches, new_master, timestamp) ==
    [text |-> text, blank |-> blank, matches |-> matches, new_master |-> new_master,
     timestamp |-> timestamp]

ProxySummary ==
    [total_lines |-> 0, error_count |-> 0, warning_count |-> 0, server_down_events |-> <<>>,
     server_up_events |-> <<>>, master_changes |-> <<>>, connection_errors |-> <<>>,
     cluster_issues |-> <<>>, protocol_errors |-> <<>>]

\* the error branch: the count, then the first of three patterns that matches
proxy_count_error(line, summary) ==
    LET counted == [summary EXCEPT !.error_count = @ + 1]
    IN  IF "error" \notin line.matches THEN summary
        ELSE IF "connection_error" \in line.matches
        THEN [counted EXCEPT !.connection_errors = Append(@, Event(line))]
        ELSE IF "protocol_error" \in line.matches
        THEN [counted EXCEPT !.protocol_errors = Append(@, Event(line))]
        ELSE IF "no_cluster" \in line.matches
        THEN [counted EXCEPT !.cluster_issues = Append(@, Event(line))]
        ELSE counted

\* the four independent checks after the error branch
proxy_count_events(line, summary) ==
    [summary EXCEPT
        !.warning_count = IF "warning" \in line.matches THEN @ + 1 ELSE @,
        !.server_down_events =
            IF "server_down" \in line.matches THEN Append(@, Event(line)) ELSE @,
        !.server_up_events =
            IF "server_up" \in line.matches THEN Append(@, Event(line)) ELSE @,
        !.master_changes =
            IF "lost_master" \in line.matches \/ line.new_master
            THEN Append(@, Event(line)) ELSE @]

\* one iteration of "for line in lines"
proxy_classify_line(line, summary) ==
    IF line.blank THEN summary
    ELSE proxy_count_events(line, proxy_count_error(line, summary))

RECURSIVE proxy_classify_lines(_, _)
\* the loop of analyze_log_content (the second test never holds: it has the
\* summary evaluated at each line)
proxy_classify_lines(lines, summary) ==
    IF lines = <<>> \/ summary.total_lines < 0 THEN summary
    ELSE proxy_classify_lines(Tail(lines), proxy_classify_line(Head(lines), summary))

\* MaxScaleLogAnalyzer._generate_findings
proxy_log_findings(summary) ==
    (IF Len(summary.server_down_events) > 5
     THEN <<[severity |-> "warning", title |-> "Frequent server down events"]>> ELSE <<>>)
    \o (IF Len(summary.master_changes) > 3
        THEN <<[severity |-> "warning", title |-> "Frequent master changes"]>> ELSE <<>>)
    \o (IF summary.cluster_issues # <<>>
        THEN <<[severity |-> "critical", title |-> "Cluster membership issues"]>> ELSE <<>>)
    \o (IF Len(summary.connection_errors) > 10
        THEN <<[severity |-> "warning", title |-> "Connection errors"]>> ELSE <<>>)
    \o <<[severity |-> "info", title |-> "MaxScale log summary"]>>

\* MaxScaleLogAnalyzer.analyze_log_content
maxscale_analyze_log(lines) ==
    LET summary == proxy_classify_lines(lines, [ProxySummary EXCEPT !.total_lines = Len(lines)])
    IN  [summary |-> summary, findings |-> proxy_log_findings(summary),
         recommendations |-> <<>>,
         server_down_count |-> Len(summary.server_down_events),
         master_changes |-> Len(summary.master_changes),
         connection_errors |-> Len(summary.connection_errors)]

-----------------------------------------------------------------------------
(* CombinedLogAnalyzer.analyze *)

RECURSIVE classify_lines(_, _)
\* the loop of MariaDBLogAnalyzer.analyze_log_content (the second test never
\* holds: it has the summary evaluated at each line)
classify_lines(lines, summary) ==
    IF lines = <<>> \/ summary.total_lines < 0 THEN summary
    ELSE classify_lines(Tail(lines), classify_line(Head(lines), summary))

\* the dictionary MariaDBLogAnalyzer.analyze_log_content returns
mariadb_log_result(summary) ==
    [summary |-> summary, findings |-> log_findings(summary),
     recommendations |-> log_recommendations(summary),
     critical_issues |-> Len(summary.critical_events),
     sst_count |-> Len(summary.buckets["sst_events"]),
     disk_issues |-> Len(summary.buckets["disk_issues"]),
     inconsistencies |-> Len(summary.buckets["inconsistency_events"])]

mariadb_analyze_log(lines) ==
    mariadb_log_result(classify_lines(lines, [LogSummary EXCEPT !.total_lines = Len(lines)]))

slow_log_result(summary) ==
    [raised |-> FALSE, summary |-> summary, findings |-> slow_generate_findings(summary),
     recommendations |-> slow_generate_recommendations(summary)]

\* SlowQueryLogAnalyzer.analyze_log_content; a ValueError leaves no result
slow_analyze_log(lines) ==
    LET r == scan_lines(NewSummary, lines)
    IN  IF r.raised THEN [raised |-> TRUE] ELSE slow_log_result(with_average(r.summary))

\* the results dictionary at the entry of analyze, with the two local lists
CombinedResults ==
    [mariadb_logs |-> <<>>, maxscale_logs |-> <<>>, slow_query_logs |-> <<>>,
     combined_findings |-> <<>>, combined_recommendations |-> <<>>,
     all_findings |-> <<>>, all_recommendations |-> <<>>,
     summary |-> [total_critical_issues |-> 0, total_warnings |-> 0,
                  disk_issues_detected |-> FALSE, inconsistency_detected |-> FALSE,
                  frequent_sst |-> FALSE, cluster_instability |-> FALSE]]

\* a variant that counts three SST events as frequent
sst_at_least_three(result) == result.sst_count >= 3

\* result["sst_count"] > 3
sst_frequent(result) == result.sst_count > 3

extend_combined(res, result) ==
    [res EXCEPT !.all_findings = @ \o result.findings,
                !.all_recommendations = @ \o result.recommendations]

\* the body of "for node_name, log_content in logs.mariadb_logs.items()"
combine_mariadb_log(res, result) ==
    [extend_combined(res, result) EXCEPT
        !.mariadb_logs = Append(@, result),
        !.summary.disk_issues_detected = IF result.disk_issues > 0 THEN TRUE ELSE @,
        !.summary.inconsistency_detected = IF result.inconsistencies > 0 THEN TRUE ELSE @,
        !.summary.frequent_sst = IF sst_frequent(result) THEN TRUE ELSE @]

RECURSIVE combine_mariadb_logs(_, _)
combine_mariadb_logs(res, logs) ==
    IF logs = <<>> THEN res
    ELSE combine_mariadb_logs(combine_mariadb_log(res, mariadb_analyze_log(Head(logs))),
                              Tail(logs))

\* the body of "for node_name, log_content in logs.maxscale_logs.items()"
combine_maxscale_log(res, result) ==
    [extend_combined(res, result) EXCEPT
        !.maxscale_logs = Append(@, result),
        !.summary.cluster_instability = IF result.master_changes > 3 THEN TRUE ELSE @]

RECURSIVE combine_maxscale_logs(_, _)
combine_maxscale_logs(res, logs) ==
    IF logs = <<>> THEN res
    ELSE combine_maxscale_logs(combine_maxscale_log(res, maxscale_analyze_log(Head(logs))),
                               Tail(logs))

\* the body of "for node_name, log_content in logs.slow_query_logs.items()"
combine_slow_log(res, result) ==
    [extend_combined(res, result) EXCEPT !.slow_query_logs = Append(@, result)]

RECURSIVE combine_slow_logs(_, _)
\* [raised, res]
combine_slow_logs(res, logs) ==
    IF logs = <<>> THEN [raised |-> FALSE, res |-> res]
    ELSE IF slow_analyze_log(Head(logs)).raised THEN [raised |-> TRUE, res |-> res]
    ELSE combine_slow_logs(combine_slow_log(res, slow_analyze_log(Head(logs))), Tail(logs))

CountSeverity(findings, sev) ==
    Cardinality({i \in DOMAIN findings : findings[i].severity = sev})

\* "Deduplicate and summarize"
summarize_combined(res) ==
    [res EXCEPT !.combined_findings = res.all_findings,
                !.combined_recommendations = res.all_recommendations,
                !.summary.total_critical_issues = CountSeverity(res.all_findings, "critical"),
                !.summary.total_warnings = CountSeverity(res.all_findings, "warning")]

-----------------------------------------------------------------------------
(* Specification SpecCombined: one CombinedLogAnalyzer.analyze call *)

MaxRepeat == 4
MaxLogNodes == 2

\* a log of k copies of one line
Repeated(line, k) == [i \in 1..k |-> line]

\* the SST line, the table-full line and the inconsistency line of the error
\* log lines
CombinedErrorLines ==
    {l \in ErrorLogLines :
        l.matches \in {{"sst"}, {"error", "disk_full"},
                       {"error", "disk_full", "inconsistent", "sst", "ist"}}}

\* the SST line three and four times, the two other lines once
CombinedErrorLogs ==
    {Repeated(l, k) : l \in {q \in CombinedErrorLines : q.matches = {"sst"}},
                      k \in (MaxRepeat - 1)..MaxRepeat}
    \cup {<<l>> : l \in {q \in CombinedErrorLines : q.matches # {"sst"}}}

ProxyLogLines ==
    {ProxyLogLine("2025-12-08 18:08:38   notice : Server changed state: db1[10.0.0.1:3306]: lost_master. [Master, Running] -> [Running]",
                  FALSE, {"notice", "lost_master"}, FALSE, Stamp("2025-12-08 18:08:38")),
     ProxyLogLine("2025-12-08 18:08:39   error  : There are no cluster members available",
                  FALSE, {"error", "no_cluster"}, FALSE, Stamp("2025-12-08 18:08:39")),
     ProxyLogLine("2025-12-08 18:08:40   notice : Server changed state: db2[10.0.0.2:3306]: new_master. [Slave, Running] -> [Master, Running]",
                  FALSE, {"notice", "server_up"}, TRUE, Stamp("2025-12-08 18:08:40"))}

\* the lost_master line three and four times, the two other lines once
ProxyLogs ==
    {Repeated(l, k) : l \in {q \in ProxyLogLines : "lost_master" \in q.matches},
                      k \in (MaxRepeat - 1)..MaxRepeat}
    \cup {<<l>> : l \in {q \in ProxyLogLines : "lost_master" \notin q.matches}}

\* slow-query logs: a 7 s query, a 71 s query over 2M rows, a Query_time of
\* "1.2.3"
SlowLogs ==
    {<<Line(Token(<<"7">>), NoToken, NoneInt)>>,
     <<Line(Token(<<"7", "1">>), Token(<<"1">>), SomeInt(2000000))>>,
     <<Line(Token(<<"1", ".", "2", ".", "3">>), NoToken, NoneInt)>>}

\* LogAnalysisInput: the logs of each kind in the order of their dictionary
LogAnalysisInputs ==
    [mariadb_logs : {<<>>} \cup SeqsUpTo(CombinedErrorLogs, MaxLogNodes),
     maxscale_logs : {<<>>} \cup SeqsUpTo(ProxyLogs, 1),
     slow_query_logs : {<<>>} \cup SeqsUpTo(SlowLogs, 1)]

CombineMariaDB ==
    /\ review_pc = "mariadb_logs"
    /\ results' = combine_mariadb_logs(results, request.mariadb_logs)
    /\ review_pc' = "maxscale_logs"
    /\ UNCHANGED <<thVars, nodeVars, request, response, detect, callVars, logVars>>

CombineMaxScale ==
    /\ review_pc = "maxscale_logs"
    /\ results' = combine_maxscale_logs(results, request.maxscale_logs)
    /\ review_pc' = "slow_query_logs"
    /\ UNCHANGED <<thVars, nodeVars, request, response, detect, callVars, logVars>>

CombineSlowQuery ==
    /\ review_pc = "slow_query_logs"
    /\ results' = combine_slow_logs(results, request.slow_query_logs).res
    /\ review_pc' = IF combine_slow_logs(results, request.slow_query_logs).raised
                    THEN "raised" ELSE "summarize"
    /\ UNCHANGED <<thVars, nodeVars, request, response, detect, callVars, logVars>>

CombineSummarize ==
    /\ review_pc = "summarize"
    /\ results' = summarize_combined(results)
    /\ response' = summarize_combined(results)
    /\ review_pc' = "done"
    /\ UNCHANGED <<thVars, nodeVars, request, detect, callVars, logVars>>

InitCombined ==
    /\ Construct({AbsentFile})
    /\ request \in LogAnalysisInputs
    /\ response = <<>>
    /\ review_pc = "mariadb_logs"
    /\ results = CombinedResults
    /\ detect = <<>>
    /\ IdleNode /\ IdleCall /\ IdleLog

NextCombined ==
    \/ CombineMariaDB
    \/ CombineMaxScale
    \/ CombineSlowQuery
    \/ CombineSummarize

SpecCombined == InitCombined /\ [][NextCombined]_vars

RECURSIVE Flatten(_)
\* the concatenation of the finding lists of a sequence of per-log results
Flatten(per_log) ==
    IF per_log = <<>> THEN <<>> ELSE Head(per_log).findings \o Flatten(Tail(per_log))

SomeLog(per_log, P(_)) == \E i \in DOMAIN per_log : P(per_log[i])

\* C26: in the result of the combined log classifier, disk_issues_detected
\* holds iff some MariaDB log has a disk event, inconsistency_detected iff some
\* MariaDB log has an inconsistency event, frequent_sst iff some single MariaDB
\* log has more than 3 SST events, cluster_instability iff some proxy log has
\* more than 3 master changes; combined_findings is the concatenation of the
\* per-log finding lists, and the two totals count its critical and warning
\* findings
C26_CombinedFlags ==
    review_pc = "done" =>
        /\ Len(response.mariadb_logs) = Len(request.mariadb_logs)
        /\ Len(response.maxscale_logs) = Len(request.maxscale_logs)
        /\ Len(response.slow_query_logs) = Len(request.slow_query_logs)
        /\ response.summary.disk_issues_detected
              <=> SomeLog(response.mariadb_logs, LAMBDA r : r.disk_issues >= 1)
        /\ response.summary.inconsistency_detected
              <=> SomeLog(response.mariadb_logs, LAMBDA r : r.inconsistencies >= 1)
        /\ response.summary.frequent_sst
              <=> SomeLog(response.mariadb_logs,
                          LAMBDA r : Len(r.summary.buckets["sst_events"]) > 3)
        /\ response.summary.cluster_instability
              <=> SomeLog(response.maxscale_logs,
                          LAMBDA r : Len(r.summary.master_changes) > 3)
        /\ response.combined_findings
              = Flatten(response.mariadb_logs) \o Flatten(response.maxscale_logs)
                    \o Flatten(response.slow_query_logs)
        /\ response.summary.total_critical_issues
              = CountSeverity(response.combined_findings, "critical")
        /\ response.summary.total_warnings
              = CountSeverity(response.combined_findings, "warning")

\* a finished call on two MariaDB logs and a proxy log: one log has four SST
\* events, the other a disk event, the proxy log four master changes
C26_Witness ==
    /\ review_pc = "done"
    /\ Len(response.mariadb_logs) = 2 /\ Len(response.maxscale_logs) = 1
    /\ response.mariadb_logs[1].sst_count = 4
    /\ response.mariadb_logs[2].disk_issues = 1
    /\ response.maxscale_logs[1].master_changes = 4
    /\ response.summary.frequent_sst /\ response.summary.disk_issues_detected
    /\ ~response.summary.inconsistency_detected
    /\ response.summary.cluster_instability
    /\ response.summary.total_critical_issues >= 1

\* C27: in a returned review, overall_status is at least as severe as every
\* Finding of response.findings
C27_StatusCoversFindings ==
    (review_pc = "done" /\ ~response.raised)
        => \A i \in DOMAIN response.findings :
              Rank(response.overall_status) >= Rank(response.findings[i].severity)

\* C28: review returns a response without raising for every schema-valid
\* request of a supported topology, a node with max_connections = 0 and a
\* positive Max_used_connections included
C28_ReviewNeverRaises == review_pc # "raised"

\* C30: resource_consistency.is_consistent is False exactly when the
\* inconsistencies list is non-empty; in particular nodes whose disk capacities
\* differ by at most 10%, CPU, RAM and disk type being the same, are consistent
\* with an empty list
C30_InconsistentIffListed ==
    Sized => (~response.resource_consistency.is_consistent
                <=> response.resource_consistency.inconsistencies # <<>>)

=============================================================================
